---- MODULE Spec2Model ----
(***************************************************************************)
(* A model of the PII pipeline of core/csv_pii.py, core/data_steward.py,   *)
(* core/recommendation.py, core/util.py, core/data_quality.py and          *)
(* core/logic.py                                                           *)
(*                                                                         *)
(*   SpecResolve  one cell through full_analyze_mask: score filter, sort,  *)
(*                greedy overlap walk, report update, mask                 *)
(*   SpecApply    apply_recommendations on a small data frame              *)
(*   SpecDate     generalize_date_to_decade on date-shaped and other text  *)
(*   SpecSample   adaptive_sampling on tables of up to MaxSampleRows rows   *)
(*   SpecHeader   score_header on one header                               *)
(*   SpecRecommend  recommend_actions: the four rules, the grouping, the   *)
(*                answer of the decision maker, the payload                *)
(*   SpecQuality  data_quality_score of core/data_quality.py on a small    *)
(*                data frame                                               *)
(*   SpecEntities the recognizers of core/logic.py on texts written around *)
(*                an instance of an entity type                            *)
(*   SpecRuns     two runs of process_csv that mask a column each, cell by *)
(*                cell, against the report of the module                   *)
(*   SpecPii      the full-column fallback of process_pii, cell by cell    *)
(*                                                                         *)
(* Python strings are sequences of one-character strings, so that slicing, *)
(* parsing and formatting are computed and not assumed.                    *)
(***************************************************************************)
EXTENDS Integers, Sequences, FiniteSets, TLC

VARIABLES
    rpc,         \* SpecResolve: "idle" | "masked"
    cellText,    \* the cell handed to the analyzer (str(cell))
    results,     \* what analyzer.analyze returned for the cell, in its order
    selected,    \* the resolver's selection
    walk,        \* one record per iteration of the walk over the sorted spans
    maskedText,  \* mask(cell, selected)
    report,      \* csv_pii.report: column name -> category -> count
    dpc,         \* SpecDate: "idle" | "done"
    dval,        \* the argument of generalize_date_to_decade
    dexpect,     \* the year its text was written with, -1 for text that is no date
    dres,        \* what generalize_date_to_decade returned
    apc,         \* SpecApply: "idle" | "loop" | "done"
    heap,        \* the data frames that exist, by reference (1-based)
    dfRef,       \* the frame the caller passed in
    outRef,      \* the local variable out
    df0,         \* the caller's frame as it was at the call
    feedback,    \* the action plan: entries (col, actions) in dict order
    analyzer,    \* which recognizer get_analyzer() returned
    fidx,        \* the position of "for col, actions in feedback.items()"
    dropped,     \* cols_to_drop
    applied,     \* one record per action block that ran
    spc,         \* SpecSample: "idle" | "done"
    rows,        \* the rows handed to adaptive_sampling (row numbers)
    threshold,   \* its argument threshold, in tenths
    min_samples, \* its argument min_samples
    sample,      \* what it returned
    hpc,         \* SpecHeader: "idle" | "done"
    ratios,      \* token_set_ratio of the header with each synonym, entity by entity
    threshhold,  \* the argument threshhold of score_header
    header_match,\* the entry score_header wrote for the header
    rcpc,        \* SpecRecommend: "idle" | "grouped" | "asked" | "done"
    table,       \* the data frame handed to recommend_actions, column by column
    na_results,  \* what analyze_table_na returned
    pii_results, \* what process_pii returned
    enrich_results,\* what enrich_headers returned
    categorize_results,\* what analyze_categorization returned
    grouped,     \* the recommendations by column, without the keeps
    raw,         \* what ask_llm returned
    parsed_plan, \* the plan read from raw
    payload,     \* what serialize_recommendation returned
    qpc,         \* SpecQuality: "idle" | "done"
    qdf,         \* the data frame handed to data_quality_score, column by column
    quality_score,\* what data_quality_score returned
    epc,         \* SpecEntities: "idle" | "done"
    etext,       \* the text handed to analyzer.analyze
    instance,    \* the instance the text was written around
    detected,    \* the entity types of the results
    runs,        \* SpecRuns: the masking runs, each with its position, its column and what it returned
    fpc,         \* SpecPii: "idle" | "done"
    fseries,     \* a column of the frame handed to process_pii
    nan_hits,    \* the entity types the recognizer reports for the text "nan"
    analyzed,    \* the calls of analyzer.analyze, row and text
    frec         \* what full_analyze returned for the column

resolveVars == <<rpc, cellText, results, selected, walk, maskedText, report>>

dateVars == <<dpc, dval, dexpect, dres>>

applyVars == <<apc, heap, dfRef, outRef, df0, feedback, analyzer, fidx, dropped, applied>>

sampleVars == <<spc, rows, threshold, min_samples, sample>>

headerVars == <<hpc, ratios, threshhold, header_match>>

recVars == <<rcpc, table, na_results, pii_results, enrich_results, categorize_results, grouped, raw, parsed_plan, payload>>

qualityVars == <<qpc, qdf, quality_score>>

entityVars == <<epc, etext, instance, detected>>

runVars == <<runs>>

piiVars == <<fpc, fseries, nan_hits, analyzed, frec>>

vars == <<rpc, cellText, results, selected, walk, maskedText, report,
          dpc, dval, dexpect, dres,
          apc, heap, dfRef, outRef, df0, feedback, analyzer, fidx, dropped, applied,
          spc, rows, threshold, min_samples, sample,
          hpc, ratios, threshhold, header_match,
          rcpc, table, na_results, pii_results, enrich_results, categorize_results, grouped, raw, parsed_plan, payload,
          qpc, qdf, quality_score,
          epc, etext, instance, detected,
          runs,
          fpc, fseries, nan_hits, analyzed, frec>>

(***************************************************************************)
(* Bounds                                                                  *)
(***************************************************************************)
MaxTextLen == 4
MaxSpans == 3
MaxPad == 1
MaxRows == 2
MaxSampleRows == 104
MaxSynonyms == 2

(***************************************************************************)
(* Strings                                                                 *)
(***************************************************************************)
Min(a, b) == IF a < b THEN a ELSE b
Max(a, b) == IF a < b THEN b ELSE a

\* Python text[a:b] for 0 <= a, 0 <= b: clamped to the text, empty when a >= b.
Slice(text, a, b) ==
    LET lo == Min(a, Len(text))
        hi == Min(b, Len(text))
    IN  IF lo >= hi THEN <<>> ELSE SubSeq(text, lo + 1, hi)

\* text[a:]
SliceFrom(text, a) == Slice(text, a, Len(text))

SampleText == <<"a", "b", "c", "d", "e", "f", "g", "h">>

DigitVal ==
    [c \in {"0", "1", "2", "3", "4", "5", "6", "7", "8", "9"} |->
        CASE c = "0" -> 0 [] c = "1" -> 1 [] c = "2" -> 2 [] c = "3" -> 3
          [] c = "4" -> 4 [] c = "5" -> 5 [] c = "6" -> 6 [] c = "7" -> 7
          [] c = "8" -> 8 [] OTHER -> 9]

DigitChar == <<"0", "1", "2", "3", "4", "5", "6", "7", "8", "9">>

IsDigit(c) == c \in DOMAIN DigitVal

\* The character at 1-based position i, "" past the end.
At(s, i) == IF i >= 1 /\ i <= Len(s) THEN s[i] ELSE ""

AllDigits(s) == \A i \in 1..Len(s) : IsDigit(s[i])

\* int(s) for a text of digits
RECURSIVE DigitsToInt(_)
DigitsToInt(s) ==
    IF s = <<>> THEN 0
    ELSE DigitsToInt(SubSeq(s, 1, Len(s) - 1)) * 10 + DigitVal[s[Len(s)]]

\* str(n) for n >= 0
RECURSIVE IntToStr(_)
IntToStr(n) ==
    IF n < 10 THEN <<DigitChar[n + 1]>>
    ELSE IntToStr(n \div 10) \o <<DigitChar[(n % 10) + 1]>>

IsSpace(c) == c = " "

\* str.strip()
RECURSIVE LStrip(_)
LStrip(s) == IF s # <<>> /\ IsSpace(Head(s)) THEN LStrip(Tail(s)) ELSE s

RECURSIVE RStrip(_)
RStrip(s) ==
    IF s # <<>> /\ IsSpace(s[Len(s)]) THEN RStrip(SubSeq(s, 1, Len(s) - 1)) ELSE s

Strip(s) == RStrip(LStrip(s))

(***************************************************************************)
(* Cells of a data frame: missing (NaN from read_csv, None from            *)
(* full_analyze_mask), str, int, float (n/d).                              *)
(***************************************************************************)
NaN == [k |-> "nan", s |-> <<>>, n |-> 0, d |-> 1]
PyNone == [k |-> "none", s |-> <<>>, n |-> 0, d |-> 1]
Str(s) == [k |-> "str", s |-> s, n |-> 0, d |-> 1]
IntCell(n) == [k |-> "int", s |-> <<>>, n |-> n, d |-> 1]
FloatCell(n, d) == [k |-> "float", s |-> <<>>, n |-> n, d |-> d]

\* pd.isna(cell)
IsNa(c) == c.k \in {"nan", "none"}

\* The digits of r/d after the decimal point, at most k of them.
RECURSIVE FracDigits(_, _, _)
FracDigits(r, d, k) ==
    IF r = 0 \/ k = 0 THEN <<>>
    ELSE <<DigitChar[((r * 10) \div d) + 1]>> \o FracDigits((r * 10) % d, d, k - 1)

\* str(x) for a float x = n/d >= 0: "12.0", "4.5"
FloatToStr(n, d) ==
    IntToStr(n \div d) \o <<".">> \o
    (IF n % d = 0 THEN <<"0">> ELSE FracDigits(n % d, d, 16))

\* str(cell)
PyStr(c) ==
    CASE c.k = "str" -> c.s
      [] c.k = "int" -> IntToStr(c.n)
      [] c.k = "float" -> FloatToStr(c.n, c.d)
      [] c.k = "nan" -> <<"n", "a", "n">>
      [] OTHER -> <<"N", "o", "n", "e">>

(***************************************************************************)
(* Glossary (assets/rgdp_glossary.json, loaded at import): entity type ->  *)
(* category.  A sample with one listed and one unlisted entity type.       *)
(***************************************************************************)
CatEmail == <<"E", "m", "a", "i", "l">>
CatJob == <<"J", "o", "b">>
CatDate == <<"D", "a", "t", "e">>
Uncategorized == <<"U", "n", "c", "a", "t", "e", "g", "o", "r", "i", "z", "e", "d">>

GDPR_CATEGORIES ==
    [t \in {"EMAIL_ADDRESS", "JOB_TITLE", "DATE_TIME"} |->
        CASE t = "EMAIL_ADDRESS" -> CatEmail
          [] t = "JOB_TITLE" -> CatJob
          [] OTHER -> CatDate]

\* dict.get(key, default)
GlossaryGet(label, default) ==
    IF label \in DOMAIN GDPR_CATEGORIES THEN GDPR_CATEGORIES[label] ELSE default

Categories == {CatEmail, CatJob, CatDate, Uncategorized}

(***************************************************************************)
(* Recognizer results.  Scores are in tenths: 0.6 is 6.                    *)
(***************************************************************************)
MIN_SCORE == 6

None == [start |-> -1, end |-> -1, entity_type |-> "None", score |-> 0]

\* What the recognizers of one run can attach to a span: three recognizers of
\* distinct confidence emitting in registry order, or two of equal confidence
\* and different entity type emitting in either order.
LabelFamilies ==
    { [labels |-> { [entity_type |-> "EMAIL_ADDRESS", score |-> 7],
                    [entity_type |-> "UNLISTED", score |-> 8],
                    [entity_type |-> "EMAIL_ADDRESS", score |-> 9] },
       reversible |-> FALSE],
      [labels |-> { [entity_type |-> "EMAIL_ADDRESS", score |-> 8],
                    [entity_type |-> "UNLISTED", score |-> 8] },
       reversible |-> TRUE] }

\* EntitySpan invariant of the recognizer: 0 <= start < end <= len(text).
SpanUniverse(n, labels) ==
    { [start |-> iv[1], end |-> iv[2], entity_type |-> l.entity_type, score |-> l.score] :
        iv \in {p \in (0..n) \X (0..n) : p[1] < p[2]}, l \in labels }

\* The order in which the recognizers emit: by recognizer, then left to right.
TypeRank(t) == IF t = "EMAIL_ADDRESS" THEN 0 ELSE 1
Rank(r) == ((TypeRank(r.entity_type) * 10 + r.score) * 10 + r.start) * 10 + r.end

\* The lists of at most k distinct spans of U, in emission order.
RECURSIVE AscLists(_, _)
AscLists(U, k) ==
    IF k = 0 THEN {<<>>}
    ELSE LET shorter == AscLists(U, k - 1)
             longest == {l \in shorter : Len(l) = k - 1}
         IN  shorter \cup
             { Append(p[1], p[2]) :
                 p \in { q \in longest \X U :
                           \/ q[1] = <<>>
                           \/ Rank(q[2]) > Rank(q[1][Len(q[1])]) } }

Reverse(s) == [i \in 1..Len(s) |-> s[Len(s) + 1 - i]]

(***************************************************************************)
(* full_analyze_mask, one cell: csv_pii.py lines 109-134                   *)
(***************************************************************************)
\* results = [r for r in results if r.score >= MIN_SCORE]
FilterScore(rs) == SelectSeq(rs, LAMBDA r : r.score >= MIN_SCORE)

\* The sort key (x.start, -x.end), compared as Python compares tuples.
KeyLess(a, b) == a.start < b.start \/ (a.start = b.start /\ (0 - a.end) < (0 - b.end))

\* list.sort is stable: r, later in the list than all of s, goes after every
\* element whose key is not greater than its own.
RECURSIVE InsertSorted(_, _)
InsertSorted(s, r) ==
    IF s = <<>> THEN <<r>>
    ELSE IF KeyLess(r, Head(s)) THEN <<r>> \o s
    ELSE <<Head(s)>> \o InsertSorted(Tail(s), r)

\* Mutant: the sort is left out.
SortResults_Unsorted(rs) == rs

RECURSIVE SortResults(_)
SortResults(rs) ==
    IF rs = <<>> THEN <<>>
    ELSE InsertSorted(SortResults(SubSeq(rs, 1, Len(rs) - 1)), rs[Len(rs)])

SpanLen(r) == r.end - r.start

\* Mutant: an equal score also replaces.
Replaces_OnEqualScore(r, prev) ==
    \/ (r.end - r.start) > (prev.end - prev.start)
    \/ ((r.end - r.start) = (prev.end - prev.start) /\ r.score >= prev.score)

\* r_span > prev_span or (r_span == prev_span and r.score > prev.score)
Replaces(r, prev) ==
    \/ SpanLen(r) > SpanLen(prev)
    \/ (SpanLen(r) = SpanLen(prev) /\ r.score > prev.score)

\* One iteration of "for r in results" (lines 116-127) on the loop's state.
WalkStep(st, r) ==
    LET next ==
          IF st.prev = None
          THEN [prev |-> r, selected |-> st.selected]
          ELSE IF r.start < st.prev.end
               THEN IF Replaces(r, st.prev)
                    THEN [prev |-> r, selected |-> st.selected]
                    ELSE [prev |-> st.prev, selected |-> st.selected]
               ELSE [prev |-> r, selected |-> Append(st.selected, st.prev)]
    IN  [prev |-> next.prev, selected |-> next.selected,
         trace |-> Append(st.trace, [r |-> r, before |-> st.prev, after |-> next.prev])]

RECURSIVE WalkFrom(_, _)
WalkFrom(st, rs) ==
    IF rs = <<>> THEN st ELSE WalkFrom(WalkStep(st, Head(rs)), Tail(rs))

\* Mutant: the last candidate is never committed.
CommitLast_Never(st) == st.selected

\* if prev: selected.append(prev)   (lines 128-129)
CommitLast(st) ==
    IF st.prev # None THEN Append(st.selected, st.prev) ELSE st.selected

\* Lines 111-129: the loop's final state, with the selection committed.
ResolveRun(rs) ==
    LET st == WalkFrom([prev |-> None, selected |-> <<>>, trace |-> <<>>],
                       SortResults(FilterScore(rs)))
    IN  [selected |-> CommitLast(st), trace |-> st.trace]

Resolve(rs) == ResolveRun(rs).selected

\* mask(text, entities), lines 138-157
Tag(label) == <<"<">> \o GlossaryGet(label, Uncategorized) \o <<">">>

\* Mutant: the text after the last entity is dropped.
MaskTail_Dropped(text, last_end) == <<>>

\* masked += text[last_end:]   (line 156)
MaskTail(text, last_end) == SliceFrom(text, last_end)

RECURSIVE MaskFrom(_, _, _, _)
MaskFrom(text, entities, masked, last_end) ==
    IF entities = <<>> THEN masked \o MaskTail(text, last_end)
    ELSE LET entity == Head(entities)
         IN  MaskFrom(text, Tail(entities),
                      masked \o Slice(text, last_end, entity.start) \o Tag(entity.entity_type),
                      entity.end)

mask(text, entities) == MaskFrom(text, entities, <<>>, 0)

\* report[column.name][cat] += 1 for r in selected   (lines 130-132)
RECURSIVE ReportAdd(_, _, _)
ReportAdd(rep, name, sel) ==
    IF sel = <<>> THEN rep
    ELSE LET cat == GlossaryGet(Head(sel).entity_type, Uncategorized)
         IN  ReportAdd([rep EXCEPT ![name][cat] = @ + 1], name, Tail(sel))

ColumnNames == {"a", "b", "c"}
EmptyReport == [n \in ColumnNames |-> [c \in Categories |-> 0]]

\* The masking runs of one process, and a run that has not started.
RunIds == {1, 2}

IdleRun ==
    [pc |-> "idle", name |-> "", column |-> <<>>, idx |-> 0, used |-> EmptyReport,
     returned |-> EmptyReport]

(***************************************************************************)
(* SpecResolve                                                             *)
(***************************************************************************)
IdleResolve ==
    /\ rpc = "idle"
    /\ cellText = <<>>
    /\ results = <<>>
    /\ selected = <<>>
    /\ walk = <<>>
    /\ maskedText = <<>>
    /\ report = EmptyReport

\* One non-missing cell of column "a" goes through the loop body.
AnalyzeMaskCell ==
    /\ rpc = "idle"
    /\ \E fam \in LabelFamilies :
       \E l \in AscLists(SpanUniverse(MaxTextLen, fam.labels), MaxSpans) :
       \E rs \in (IF fam.reversible THEN {l, Reverse(l)} ELSE {l}) :
          LET run == ResolveRun(rs)
          IN  /\ cellText' = SubSeq(SampleText, 1, MaxTextLen)
              /\ results' = rs
              /\ selected' = run.selected
              /\ walk' = run.trace
              /\ maskedText' = mask(SubSeq(SampleText, 1, MaxTextLen), run.selected)
              /\ report' = ReportAdd(report, "a", run.selected)
    /\ rpc' = "masked"
    /\ UNCHANGED <<dateVars, applyVars, sampleVars, headerVars, recVars, qualityVars, entityVars, runVars, piiVars>>

NextResolve == AnalyzeMaskCell

IdleDate ==
    /\ dpc = "idle"
    /\ dval = PyNone
    /\ dexpect = -1
    /\ dres = PyNone

IdleApply ==
    /\ apc = "idle"
    /\ heap = <<>>
    /\ dfRef = 0
    /\ outRef = 0
    /\ df0 = [columns |-> <<>>, data |-> <<>>, cat |-> {}]
    /\ feedback = <<>>
    /\ analyzer = "none"
    /\ fidx = 0
    /\ dropped = <<>>
    /\ applied = <<>>

IdleSample ==
    /\ spc = "idle"
    /\ rows = <<>>
    /\ threshold = 0
    /\ min_samples = 0
    /\ sample = <<>>

IdleHeader ==
    /\ hpc = "idle"
    /\ ratios = <<>>
    /\ threshhold = 0
    /\ header_match = [entity |-> "", score |-> 0]

IdleRecommend ==
    /\ rcpc = "idle"
    /\ table = [rows |-> 0, columns |-> <<>>]
    /\ na_results = <<>>
    /\ pii_results = <<>>
    /\ enrich_results = <<>>
    /\ categorize_results = <<>>
    /\ grouped = <<>>
    /\ raw = [isStr |-> TRUE, text |-> <<>>]
    /\ parsed_plan = <<>>
    /\ payload = <<>>

IdleQuality ==
    /\ qpc = "idle"
    /\ qdf = <<>>
    /\ quality_score = [overall_score |-> 0, category |-> ""]

IdleEntities ==
    /\ epc = "idle"
    /\ etext = <<>>
    /\ instance = [entity |-> "", text |-> <<>>]
    /\ detected = {}

IdleRuns ==
    /\ runs = [r \in RunIds |-> IdleRun]

IdlePii ==
    /\ fpc = "idle"
    /\ fseries = <<>>
    /\ nan_hits = <<>>
    /\ analyzed = <<>>
    /\ frec = [action |-> "", entity |-> "", count |-> 0, total |-> 0]

InitResolve == IdleResolve /\ IdleDate /\ IdleApply /\ IdleSample /\ IdleHeader /\ IdleRecommend /\ IdleQuality /\ IdleEntities /\ IdleRuns /\ IdlePii

SpecResolve == InitResolve /\ [][NextResolve]_vars

(***************************************************************************)
(* Claims on the resolver and the masker                                   *)
(***************************************************************************)
Overlapped == Len(FilterScore(results)) > Len(selected)

\* C1: the selection is non-overlapping and ordered by start: consecutive
\* selected spans s, t satisfy s.end <= t.start.
C1_SelectionDisjointOrdered ==
    rpc = "masked" =>
        \A i \in 1..(Len(selected) - 1) : selected[i].end <= selected[i + 1].start

C1_Witness == rpc = "masked" /\ Len(selected) >= 2 /\ Overlapped

\* C2: in every iteration where the new span overlaps the candidate, the
\* candidate is replaced exactly when the new span is strictly longer, or as
\* long with a strictly higher score; otherwise the candidate is kept and the
\* new span is discarded.  The span that loses is not in the selection.
C2_PrefersLongerThenHigherScore ==
    rpc = "masked" =>
        \A i \in 1..Len(walk) :
            LET e == walk[i]
                rlen == e.r.end - e.r.start
                plen == e.before.end - e.before.start
                wins == rlen > plen \/ (rlen = plen /\ e.r.score > e.before.score)
                InSelection(x) == \E j \in 1..Len(selected) : selected[j] = x
            IN  (e.before # None /\ e.r.start < e.before.end) =>
                    /\ wins => (e.after = e.r /\ ~InSelection(e.before))
                    /\ ~wins => (e.after = e.before /\ ~InSelection(e.r))

C2_Witness ==
    /\ rpc = "masked"
    /\ \E i, j \in 1..Len(walk) :
          /\ walk[i].before # None /\ walk[i].r.start < walk[i].before.end
          /\ walk[i].after = walk[i].r
          /\ SpanLen(walk[i].r) = SpanLen(walk[i].before)
          /\ walk[j].before # None /\ walk[j].r.start < walk[j].before.end
          /\ walk[j].after = walk[j].before

RECURSIVE SumOver(_, _)
SumOver(f(_), sq) == IF sq = <<>> THEN 0 ELSE f(Head(sq)) + SumOver(f, Tail(sq))

CategoryOf(t) == IF t \in DOMAIN GDPR_CATEGORIES THEN GDPR_CATEGORIES[t] ELSE Uncategorized
TagLen(r) == Len(CategoryOf(r.entity_type)) + 2

\* The masked text, position by position: a tag where a selected span starts,
\* nothing inside a selected span, the character itself elsewhere.
RECURSIVE ExpectedFrom(_, _, _)
ExpectedFrom(text, sel, i) ==
    IF i >= Len(text) THEN <<>>
    ELSE LET starting == {j \in 1..Len(sel) : sel[j].start = i}
             inside == {j \in 1..Len(sel) : sel[j].start < i /\ i < sel[j].end}
             piece == IF starting # {}
                      THEN <<"<">> \o CategoryOf(sel[CHOOSE j \in starting : TRUE].entity_type)
                                   \o <<">">>
                      ELSE IF inside # {} THEN <<>> ELSE <<text[i + 1]>>
         IN  piece \o ExpectedFrom(text, sel, i + 1)

\* C3: for a non-overlapping, start-ordered selection the masked text has
\* length len(text) - sum(span lengths) + sum(tag lengths); every character
\* outside the spans is kept in order and every span becomes one "<category>",
\* "Uncategorized" for an entity type the glossary does not list.
C3_MaskLengthAndContent ==
    rpc = "masked" =>
        /\ Len(maskedText) = Len(cellText) - SumOver(SpanLen, selected) + SumOver(TagLen, selected)
        /\ maskedText = ExpectedFrom(cellText, selected, 0)

C3_Witness ==
    /\ rpc = "masked"
    /\ Len(selected) >= 2
    /\ selected[1].start > 0
    /\ selected[Len(selected)].end < Len(cellText)
    /\ \E j \in 1..Len(selected) : selected[j].entity_type \notin DOMAIN GDPR_CATEGORIES

\* C4: the resolver run on its own selection returns that selection.
C4_ResolveIdempotent == rpc = "masked" => Resolve(selected) = selected

C4_Witness == rpc = "masked" /\ Len(selected) >= 2 /\ Overlapped /\ selected # results

(***************************************************************************)
(* generalize_date_to_decade: data_steward.py lines 54-99                  *)
(***************************************************************************)
_DATE_FORMATS ==
    << <<"Y", "-", "m", "-", "d">>, <<"Y", "/", "m", "/", "d">>,
       <<"d", "-", "m", "-", "Y">>, <<"d", "/", "m", "/", "Y">>,
       <<"Y", "-", "m">>, <<"Y", "/", "m">>,
       <<"Y">> >>

\* How many characters a directive of strptime takes at position i (0: it
\* does not match), its regex alternatives tried in their order:
\* %Y \d\d\d\d, %m 1[0-2]|0[1-9]|[1-9], %d 3[0-1]|[1-2]\d|0[1-9]|[1-9]| [1-9]
DirectiveLen(dir, s, i) ==
    LET c1 == At(s, i)
        c2 == At(s, i + 1)
        nz(c) == IsDigit(c) /\ c # "0"
    IN  CASE dir = "Y" ->
               IF \A j \in 0..3 : IsDigit(At(s, i + j)) THEN 4 ELSE 0
          [] dir = "m" ->
               IF c1 = "1" /\ c2 \in {"0", "1", "2"} THEN 2
               ELSE IF c1 = "0" /\ nz(c2) THEN 2
               ELSE IF nz(c1) THEN 1 ELSE 0
          [] dir = "d" ->
               IF c1 = "3" /\ c2 \in {"0", "1"} THEN 2
               ELSE IF c1 \in {"1", "2"} /\ IsDigit(c2) THEN 2
               ELSE IF c1 = "0" /\ nz(c2) THEN 2
               ELSE IF nz(c1) THEN 1
               ELSE IF c1 = " " /\ nz(c2) THEN 2 ELSE 0
          [] OTHER -> IF c1 = dir THEN 1 ELSE 0

IsLeap(y) == (y % 4 = 0 /\ y % 100 # 0) \/ y % 400 = 0

DaysInMonth(y, m) ==
    IF m = 2 THEN (IF IsLeap(y) THEN 29 ELSE 28)
    ELSE IF m \in {4, 6, 9, 11} THEN 30 ELSE 31

\* The regex of the format matched from position i, fields collected in acc.
RECURSIVE MatchFormat(_, _, _, _)
MatchFormat(s, fmt, i, acc) ==
    IF fmt = <<>> THEN [acc EXCEPT !.ok = (i = Len(s) + 1)]
    ELSE LET dir == Head(fmt)
             n == DirectiveLen(dir, s, i)
             v == DigitsToInt(LStrip(SubSeq(s, i, i + n - 1)))
         IN  IF n = 0 THEN [acc EXCEPT !.ok = FALSE]
             ELSE MatchFormat(s, Tail(fmt), i + n,
                    CASE dir = "Y" -> [acc EXCEPT !.year = v]
                      [] dir = "m" -> [acc EXCEPT !.month = v]
                      [] dir = "d" -> [acc EXCEPT !.day = v]
                      [] OTHER -> acc)

\* datetime.strptime(s, fmt): the parsed date, ok = FALSE for a ValueError
\* (no match, unconverted data, year 0, a day the month does not have).
strptime(s, fmt) ==
    LET m == MatchFormat(s, fmt, 1, [ok |-> TRUE, year |-> 1900, month |-> 1, day |-> 1])
    IN  [m EXCEPT !.ok = m.ok /\ m.year >= 1 /\ m.day <= DaysInMonth(m.year, m.month)]

\* The fields of s between the separators - and /
RECURSIVE SplitDate(_)
SplitDate(s) ==
    IF \A i \in 1..Len(s) : s[i] \notin {"-", "/"} THEN <<s>>
    ELSE LET i == CHOOSE j \in 1..Len(s) :
                    s[j] \in {"-", "/"} /\ \A h \in 1..(j - 1) : s[h] \notin {"-", "/"}
         IN  <<SubSeq(s, 1, i - 1)>> \o SplitDate(SubSeq(s, i + 1, Len(s)))

\* _DATE_RE.match(s): optional white space, then YYYY-M[-D], D-M-YYYY or YYYY
\* with - or / between the fields, then optional white space.
_DATE_RE_match(s) ==
    LET f == SplitDate(Strip(s))
        digits(x, lo, hi) == AllDigits(x) /\ Len(x) >= lo /\ Len(x) <= hi
    IN  \/ Len(f) \in {2, 3} /\ digits(f[1], 4, 4)
           /\ \A i \in 2..Len(f) : digits(f[i], 1, 2)
        \/ Len(f) = 3 /\ digits(f[1], 1, 2) /\ digits(f[2], 1, 2) /\ digits(f[3], 4, 4)
        \/ Len(f) = 1 /\ digits(f[1], 4, 4)

\* re.findall(r"\d{4}", s): the first run of four digits, <<>> when there is none
FirstFourDigits(s) ==
    LET starts == {i \in 1..Len(s) : \A j \in 0..3 : IsDigit(At(s, i + j))}
    IN  IF starts = {} THEN <<>>
        ELSE LET i == CHOOSE j \in starts : \A h \in starts : j <= h
             IN  SubSeq(s, i, i + 3)

\* Mutant: the year is cut to its century.
DecadeOf_Century(year) == (year \div 100) * 100

\* decade = (dt.year // 10) * 10
DecadeOf(year) == (year \div 10) * 10

\* f"{decade}s"
DecadeStr(year) == Str(IntToStr(DecadeOf(year)) \o <<"s">>)

\* The loop over _DATE_FORMATS from format number i on, then the regex fallback.
RECURSIVE TryFormats(_, _, _)
TryFormats(val, s, i) ==
    IF i <= Len(_DATE_FORMATS)
    THEN LET dt == strptime(s, _DATE_FORMATS[i])
         IN  IF dt.ok THEN DecadeStr(dt.year) ELSE TryFormats(val, s, i + 1)
    ELSE IF _DATE_RE_match(s) /\ FirstFourDigits(s) # <<>>
         THEN DecadeStr(DigitsToInt(FirstFourDigits(s)))
         ELSE val

generalize_date_to_decade(val) ==
    IF val.k = "none" THEN val ELSE TryFormats(val, Strip(PyStr(val)), 1)

(***************************************************************************)
(* Data frames and the steps of apply_recommendations: data_steward.py     *)
(***************************************************************************)
\* ASCII order of the characters the cells use, for the sort inside mode().
Alphabet ==
    <<" ", "-", ".", "/", "0", "1", "2", "3", "4", "5", "6", "7", "8", "9", "<", ">",
      "E", "H", "J", "N", "U", "a", "b", "c", "d", "e", "g", "h", "i", "l", "m", "n",
      "o", "r", "s", "t", "u", "x", "z">>

Ord(c) == CHOOSE i \in 1..Len(Alphabet) : Alphabet[i] = c

RECURSIVE StrLess(_, _)
StrLess(x, y) ==
    IF y = <<>> THEN FALSE
    ELSE IF x = <<>> THEN TRUE
    ELSE IF Head(x) = Head(y) THEN StrLess(Tail(x), Tail(y))
    ELSE Ord(Head(x)) < Ord(Head(y))

\* str.lower() on the letters of the alphabet above
LowerChar(c) ==
    CASE c = "E" -> "e" [] c = "H" -> "h" [] c = "J" -> "j" [] c = "N" -> "n"
      [] c = "U" -> "u" [] OTHER -> c

Lower(x) == [i \in 1..Len(x) |-> LowerChar(x[i])]

RECURSIVE Gcd(_, _)
Gcd(a, b) == IF b = 0 THEN a ELSE Gcd(b, a % b)

\* The float n/d, in lowest terms so that equal floats are equal cells.
MkFloat(n, d) == FloatCell(n \div Gcd(n, d), d \div Gcd(n, d))

\* to_number_if_possible(x) for a str x: int(x), float(x) when x has a ".",
\* x itself when the conversion raises.
to_number_if_possible(x) ==
    LET t == Strip(x)
        dots == {i \in 1..Len(t) : t[i] = "."}
    IN  IF dots # {}
        THEN LET i == CHOOSE j \in dots : TRUE
                 ip == SubSeq(t, 1, i - 1)
                 fp == SubSeq(t, i + 1, Len(t))
                 scale == DigitsToInt(<<"1">> \o [j \in 1..Len(fp) |-> "0"])
             IN  IF Cardinality(dots) = 1 /\ AllDigits(ip) /\ AllDigits(fp) /\ Len(ip) + Len(fp) > 0
                 THEN MkFloat(DigitsToInt(ip) * scale + DigitsToInt(fp), scale)
                 ELSE Str(x)
        ELSE IF t # <<>> /\ AllDigits(t) THEN IntCell(DigitsToInt(t)) ELSE Str(x)

\* pd.to_numeric(series, errors="coerce"), cell by cell: ok = FALSE is NaN.
ToNumeric(c) ==
    CASE c.k = "str" ->
           LET t == Strip(c.s)
           IN  IF t # <<>> /\ AllDigits(t) THEN [ok |-> TRUE, n |-> DigitsToInt(t), d |-> 1]
               ELSE [ok |-> FALSE, n |-> 0, d |-> 1]
      [] c.k \in {"int", "float"} -> [ok |-> TRUE, n |-> c.n, d |-> c.d]
      [] OTHER -> [ok |-> FALSE, n |-> 0, d |-> 1]

\* The integers of the numeric cells of a str column, in row order.
NumericValues(series) ==
    LET nums == [i \in 1..Len(series) |-> ToNumeric(series[i])]
        idx == SelectSeq([i \in 1..Len(series) |-> i], LAMBDA i : nums[i].ok)
    IN  [j \in 1..Len(idx) |-> nums[idx[j]].n]

RECURSIVE SeqSum(_)
SeqSum(v) == IF v = <<>> THEN 0 ELSE Head(v) + SeqSum(Tail(v))

SeqMax(v) == CHOOSE x \in {v[i] : i \in 1..Len(v)} : \A j \in 1..Len(v) : v[j] <= x
SeqMin(v) == CHOOSE x \in {v[i] : i \in 1..Len(v)} : \A j \in 1..Len(v) : x <= v[j]

\* The k-th smallest of v (1-based), counting repetitions.
KthSmallest(v, k) ==
    CHOOSE x \in {v[i] : i \in 1..Len(v)} :
        /\ Cardinality({i \in 1..Len(v) : v[i] < x}) < k
        /\ Cardinality({i \in 1..Len(v) : v[i] <= x}) >= k

\* try_num.mean(), .median(), .max(), .min() over the cells that are numbers
Statistic(choice, v) ==
    CASE choice = "mean" -> MkFloat(SeqSum(v), Len(v))
      [] choice = "median" ->
           IF Len(v) % 2 = 1 THEN MkFloat(KthSmallest(v, (Len(v) + 1) \div 2), 1)
           ELSE MkFloat(KthSmallest(v, Len(v) \div 2) + KthSmallest(v, Len(v) \div 2 + 1), 2)
      [] choice = "max" -> MkFloat(SeqMax(v), 1)
      [] OTHER -> MkFloat(SeqMin(v), 1)

\* series.fillna(value)
fillna(series, value) ==
    [i \in 1..Len(series) |-> IF IsNa(series[i]) THEN value ELSE series[i]]

\* series.mode(dropna=True).iloc[0]: the most frequent value, the smallest of
\* them when several tie; "" for a column with no value.
ModeOrEmpty(series) ==
    LET present == {series[i] : i \in {j \in 1..Len(series) : ~IsNa(series[j])}}
        count(x) == Cardinality({i \in 1..Len(series) : series[i] = x})
        top == {x \in present : \A y \in present : count(y) <= count(x)}
    IN  IF present = {} THEN Str(<<>>)
        ELSE CHOOSE x \in top : \A y \in top : y = x \/ StrLess(x.s, y.s)

StatWords == {"mean", "median", "max", "min"}

\* The text of a fill value: the plan carries it as a str.
WordText(w) ==
    CASE w = "mean" -> <<"m", "e", "a", "n">>
      [] w = "median" -> <<"m", "e", "d", "i", "a", "n">>
      [] w = "max" -> <<"m", "a", "x">>
      [] w = "min" -> <<"m", "i", "n">>
      [] w = "mode" -> <<"m", "o", "d", "e">>
      [] w = "six" -> <<"6">>
      [] OTHER -> <<"x">>

\* numeric_ratio > 0.5, numeric_ratio = try_num.notna().mean()   (lines 134-137)
NumericRatioAboveHalf(series) ==
    Len(series) > 0 /\ 2 * Len(NumericValues(series)) > Len(series)

\* The fill block, lines 132-153, on the column as it is in out.
FillColumn(series, choice) ==
    IF choice \in StatWords /\ NumericRatioAboveHalf(series)
    THEN fillna(series, Statistic(choice, NumericValues(series)))
    ELSE IF choice = "mode" THEN fillna(series, ModeOrEmpty(series))
    ELSE fillna(series, to_number_if_possible(WordText(choice)))

\* The recognizer behind get_analyzer(), as far as the frame's cells go:
\* "none" finds nothing; "whole" reports the whole cell as a JOB_TITLE and,
\* below MIN_SCORE, its first character as an EMAIL_ADDRESS.
Analyze(kind, text) ==
    IF kind = "none" \/ text = <<>> THEN <<>>
    ELSE << [start |-> 0, end |-> 1, entity_type |-> "EMAIL_ADDRESS", score |-> 5],
            [start |-> 0, end |-> Len(text), entity_type |-> "JOB_TITLE", score |-> 9] >>

\* full_analyze_mask(column, analyzer), lines 104-135: the masked cells and
\* the report after them.
\* Mutant: a missing cell is written as the empty text.
MissingMasked_Empty(cell) == Str(<<>>)

\* if pd.isna(cell): masked.append(None)   (lines 106-107)
MissingMasked(cell) == PyNone

RECURSIVE MaskCells(_, _, _, _, _)
MaskCells(column, name, kind, masked, rep) ==
    IF column = <<>> THEN [masked |-> masked, report |-> rep]
    ELSE LET cell == Head(column)
         IN  IF IsNa(cell)
             THEN MaskCells(Tail(column), name, kind, Append(masked, MissingMasked(cell)), rep)
             ELSE LET text == PyStr(cell)
                      sel == Resolve(Analyze(kind, text))
                  IN  MaskCells(Tail(column), name, kind,
                                Append(masked, Str(mask(text, sel))),
                                ReportAdd(rep, name, sel))

full_analyze_mask(column, name, kind, rep) == MaskCells(column, name, kind, <<>>, rep)

\* load_jobs_map: assets/generelized_jobs.csv, titles lower-cased.  A sample.
Healthcare == <<"H", "e", "a", "l", "t", "h", "c", "a", "r", "e">>
OtherCategory == <<"o", "t", "h", "e", "r">>
jobs_map == [t \in {<<"n", "u", "r", "s", "e">>} |-> Healthcare]

\* Mutant: the title is looked up as written.
JobKey_AsWritten(title) == Strip(PyStr(title))

\* t = str(title).strip().lower()
JobKey(title) == Lower(Strip(PyStr(title)))

\* generalize_job_from_map(title, jobs_map), lines 43-51
generalize_job_from_map(title) ==
    IF IsNa(title) THEN title
    ELSE IF JobKey(title) \in DOMAIN jobs_map THEN Str(jobs_map[JobKey(title)])
    ELSE Str(OtherCategory)

\* series.dropna(): the cells that are not missing, in row order
dropna(series) == SelectSeq(series, LAMBDA c : ~IsNa(c))

\* lines 165-166: the sample is read from df, the frame that was passed in
SampleVal(dfcol) == IF dropna(dfcol) # <<>> THEN PyStr(dropna(dfcol)[1]) ELSE <<>>

GenType(dfcol) == IF _DATE_RE_match(SampleVal(dfcol)) THEN "date" ELSE "job"

\* s.str.match(_DATE_RE).mean() >= 0.5 over s = out[col].astype(str)
DateLikeAtLeastHalf(series) ==
    2 * Cardinality({i \in 1..Len(series) : _DATE_RE_match(PyStr(series[i]))}) >= Len(series)

\* The generalize block, lines 165-177.
GeneralizeColumn(series, dfcol) ==
    LET gen_type == GenType(dfcol)
        job == [i \in 1..Len(series) |-> generalize_job_from_map(series[i])]
        date == [i \in 1..Len(series) |-> generalize_date_to_decade(series[i])]
    IN  CASE gen_type = "job" -> job
          [] gen_type = "date" -> date
          [] OTHER -> IF DateLikeAtLeastHalf(series) THEN date ELSE job

\* A plan entry's actions are a dict: actions.get(name), None when absent.
NoAction == [name |-> "", status |-> "", value |-> ""]

Get(actions, name) ==
    IF \E i \in 1..Len(actions) : actions[i].name = name
    THEN actions[CHOOSE i \in 1..Len(actions) : actions[i].name = name]
    ELSE NoAction

\* Mutant: an action takes effect whatever its status.
Accepted_AnyStatus(cfg) == cfg # NoAction

\* act and act.get("status") == "accepted"
Accepted(cfg) == cfg # NoAction /\ cfg.status = "accepted"

SeqToSet(q) == {q[i] : i \in 1..Len(q)}

\* Mutant: out is bound to the caller's frame, no copy is made.
CopyFrame_Alias(h, ref) == [heap |-> h, ref |-> ref]

\* out = df.copy(deep=True)   (line 110)
CopyFrame(h, ref) == [heap |-> Append(h, h[ref]), ref |-> Len(h) + 1]

\* lines 116-120
RECURSIVE ColsToDrop(_, _)
ColsToDrop(fb, frame) ==
    IF fb = <<>> THEN <<>>
    ELSE (IF Accepted(Get(Head(fb).actions, "drop")) /\ Head(fb).col \in SeqToSet(frame.columns)
          THEN <<Head(fb).col>> ELSE <<>>) \o ColsToDrop(Tail(fb), frame)

\* Mutant: only the first listed column is dropped.
DropColumns_FirstOnly(frame, cols) ==
    LET keep == SelectSeq(frame.columns, LAMBDA c : c # cols[1])
    IN  [columns |-> keep,
         data |-> [c \in SeqToSet(keep) |-> frame.data[c]],
         cat |-> frame.cat \cap SeqToSet(keep)]

\* out.drop(columns=[c for c in cols_to_drop if c in out.columns]): a new frame
DropColumns(frame, cols) ==
    LET keep == SelectSeq(frame.columns, LAMBDA c : c \notin SeqToSet(cols))
    IN  [columns |-> keep,
         data |-> [c \in SeqToSet(keep) |-> frame.data[c]],
         cat |-> frame.cat \cap SeqToSet(keep)]

\* Mutant: the blocks run in the order the plan lists the actions.
StepOrder_PlanOrder(actions) ==
    LET names == [i \in 1..Len(actions) |-> actions[i].name]
    IN  SelectSeq(names, LAMBDA n : n \in {"fill", "mask", "generalize", "categorize"})

\* The order of the blocks in the loop body, lines 129-182.
StepOrder(actions) == <<"fill", "mask", "generalize", "categorize">>

\* One accepted block on out[col]; ctx is the function's local state.
Step(ctx, name, col, cfg) ==
    LET before == ctx.heap[ctx.out].data[col]
        masking == full_analyze_mask(before, col, ctx.analyzer, ctx.report)
        after == CASE name = "fill" -> FillColumn(before, cfg.value)
                   [] name = "mask" -> masking.masked
                   [] name = "generalize" -> GeneralizeColumn(before, ctx.heap[ctx.df].data[col])
                   [] OTHER -> before
    IN  [ctx EXCEPT
           !.heap[ctx.out].data[col] = after,
           !.heap[ctx.out].cat = IF name = "categorize" THEN @ \cup {col} ELSE @,
           !.report = IF name = "mask" THEN masking.report ELSE @,
           !.applied = Append(@, [col |-> col, action |-> name,
                                  before |-> before, after |-> after])]

RECURSIVE RunSteps(_, _, _)
RunSteps(ctx, names, entry) ==
    IF names = <<>> THEN ctx
    ELSE LET cfg == Get(entry.actions, Head(names))
         IN  IF Accepted(cfg)
             THEN RunSteps(Step(ctx, Head(names), entry.col, cfg), Tail(names), entry)
             ELSE RunSteps(ctx, Tail(names), entry)

\* One iteration of the loop at line 125.
ProcessEntry(ctx, entry) ==
    IF entry.col \notin SeqToSet(ctx.heap[ctx.out].columns) THEN ctx
    ELSE RunSteps(ctx, StepOrder(entry.actions), entry)

(***************************************************************************)
(* SpecApply: the frames and plans apply_recommendations is called with    *)
(***************************************************************************)
ACells == {NaN, Str(<<"6">>), Str(<<"2", "0", "0", "4">>), Str(<<"N", "u", "r", "s", "e">>)}

\* Columns a, b, c; a takes every content, b holds dates and gaps, c text.
Frames ==
    { [columns |-> <<"a", "b", "c">>,
       data |-> [n \in {"a", "b", "c"} |->
                   CASE n = "a" -> col
                     [] n = "b" -> [i \in 1..Len(col) |->
                                      IF i % 2 = 1 THEN Str(<<"1", "9", "8", "3", "-", "1", "1", "-", "1", "2">>) ELSE NaN]
                     [] OTHER -> [i \in 1..Len(col) |-> Str(<<"x">>)]],
       cat |-> {}] :
        col \in UNION {[1..n -> ACells] : n \in 1..MaxRows} }

CanonOrder == <<"drop", "fill", "mask", "generalize", "categorize">>
FillChoices == {"mean", "median", "max", "min", "mode", "six"}

Action(name, status, value) == [name |-> name, status |-> status, value |-> value]

\* The entry of column a: the accepted actions alone, or (noisy) every action
\* with its status and an "enrich", listed in the opposite order.
PrimaryActions(acc, fv, noisy) ==
    IF noisy
    THEN Reverse([i \in 1..Len(CanonOrder) |->
                    Action(CanonOrder[i],
                           IF CanonOrder[i] \in acc THEN "accepted" ELSE "rejected",
                           IF CanonOrder[i] = "fill" THEN fv ELSE "")]
                 \o <<Action("enrich", "accepted", "")>>)
    ELSE LET names == SelectSeq(CanonOrder, LAMBDA n : n \in acc)
         IN  [i \in 1..Len(names) |->
                Action(names[i], "accepted", IF names[i] = "fill" THEN fv ELSE "")]

PrimaryEntries ==
    UNION { { [col |-> "a", actions |-> PrimaryActions(acc, fv, noisy)] :
            fv \in (IF "fill" \in acc THEN FillChoices ELSE {"mean"}),
            noisy \in BOOLEAN } :
        acc \in SUBSET SeqToSet(CanonOrder) }

\* What else the plan holds, before and after the entry of a.
OtherEntries ==
    { [before |-> <<>>, after |-> <<>>],
      [before |-> <<[col |-> "b", actions |-> <<Action("drop", "accepted", "")>>]>>,
       after |-> <<>>],
      [before |-> <<[col |-> "zz", actions |-> <<Action("mask", "accepted", "")>>]>>,
       after |-> <<[col |-> "b", actions |-> <<Action("drop", "accepted", "")>>]>>],
      [before |-> <<>>,
       after |-> <<[col |-> "b", actions |-> <<Action("generalize", "accepted", "")>>]>>],
      [before |-> <<[col |-> "zz", actions |-> <<Action("mask", "accepted", "")>>]>>,
       after |-> <<[col |-> "b", actions |-> <<Action("generalize", "pending", ""),
                                               Action("drop", "rejected", "")>>]>>] }

Plans == { o.before \o <<e>> \o o.after : e \in PrimaryEntries, o \in OtherEntries }

Analyzers(fb) ==
    IF \E i \in 1..Len(fb) : Accepted(Get(fb[i].actions, "mask")) /\ fb[i].col # "zz"
    THEN {"none", "whole"} ELSE {"none"}

\* The call, lines 110-122: the copy, then the accepted drops.
StartApply ==
    /\ apc = "idle"
    /\ \E df \in Frames, fb \in Plans :
       \E an \in Analyzers(fb) :
          LET cp == CopyFrame(<<df>>, 1)
              cols == ColsToDrop(fb, cp.heap[cp.ref])
          IN  /\ df0' = df
              /\ dfRef' = 1
              /\ feedback' = fb
              /\ analyzer' = an
              /\ dropped' = cols
              /\ IF cols # <<>>
                 THEN /\ heap' = Append(cp.heap, DropColumns(cp.heap[cp.ref], cols))
                      /\ outRef' = Len(cp.heap) + 1
                 ELSE /\ heap' = cp.heap
                      /\ outRef' = cp.ref
    /\ fidx' = 1
    /\ apc' = "loop"
    /\ applied' = <<>>
    /\ UNCHANGED <<resolveVars, dateVars, sampleVars, headerVars, recVars, qualityVars, entityVars, runVars, piiVars>>

\* One entry of the plan, lines 125-182; after the last one, return out.
ApplyColumn ==
    /\ apc = "loop"
    /\ LET ctx == ProcessEntry([heap |-> heap, out |-> outRef, df |-> dfRef,
                                analyzer |-> analyzer, report |-> report,
                                applied |-> applied],
                               feedback[fidx])
       IN  /\ heap' = ctx.heap
           /\ report' = ctx.report
           /\ applied' = ctx.applied
    /\ fidx' = fidx + 1
    /\ apc' = IF fidx = Len(feedback) THEN "done" ELSE "loop"
    /\ UNCHANGED <<rpc, cellText, results, selected, walk, maskedText, dateVars,
                   dfRef, outRef, df0, feedback, analyzer, dropped, sampleVars, headerVars, recVars, qualityVars, entityVars, runVars, piiVars>>

NextApply == StartApply \/ ApplyColumn

InitApply == IdleResolve /\ IdleDate /\ IdleApply /\ IdleSample /\ IdleHeader /\ IdleRecommend /\ IdleQuality /\ IdleEntities /\ IdleRuns /\ IdlePii

SpecApply == InitApply /\ [][NextApply]_vars

(***************************************************************************)
(* Claims about apply_recommendations                                      *)
(***************************************************************************)
Out == heap[outRef]

\* The columns of the caller's frame that the plan accepts a drop for.
DropAccepted(c) ==
    \E i \in 1..Len(feedback) :
        feedback[i].col = c /\ Get(feedback[i].actions, "drop") # NoAction
        /\ Get(feedback[i].actions, "drop").status = "accepted"

\* C5: apply_recommendations never mutates the dataset it is given: at every
\* point of the call and after it, the caller's frame has the columns, the
\* column order and the cell values it had at the call, and the frame that is
\* changed and returned is another one.
C5_InputNotMutated ==
    apc # "idle" => heap[dfRef] = df0 /\ outRef # dfRef

C5_Witness ==
    /\ apc = "done"
    /\ dropped = <<"b">>
    /\ Len(applied) = 4
    /\ Out.data["a"] # df0.data["a"]
    /\ heap[dfRef] = df0

\* C6: every column with an accepted drop is removed before any other action
\* is applied: it is absent from the output whatever else is accepted for it,
\* none of its other accepted actions is executed, and the other columns
\* remain, in their original relative order.
C6_DropsFirst ==
    apc # "idle" =>
        /\ Out.columns = SelectSeq(df0.columns, LAMBDA c : ~DropAccepted(c))
        /\ DOMAIN Out.data = {c \in SeqToSet(df0.columns) : ~DropAccepted(c)}
        /\ \A j \in 1..Len(applied) : ~DropAccepted(applied[j].col)
        /\ \A c \in DOMAIN Out.data :
               (\A j \in 1..Len(applied) : applied[j].col # c) => Out.data[c] = df0.data[c]

C6_Witness ==
    /\ apc = "done"
    /\ Out.columns = <<"c">>
    /\ \E i \in 1..Len(feedback) :
           /\ feedback[i].col = "a"
           /\ \A n \in SeqToSet(CanonOrder) :
                  Get(feedback[i].actions, n).status = "accepted"
    /\ applied = <<>>

\* The accepted actions of a plan entry, in the order fill, mask, generalize,
\* categorize.
AcceptedInFixedOrder(actions) ==
    SelectSeq(<<"fill", "mask", "generalize", "categorize">>,
              LAMBDA n : \E i \in 1..Len(actions) :
                             actions[i].name = n /\ actions[i].status = "accepted")

LogOf(c) == SelectSeq(applied, LAMBDA e : e.col = c)

\* C7: for every remaining column of the plan the accepted actions are
\* applied in the order fill, mask, generalize, categorize, whatever the order
\* of the actions in the plan; each is applied to the result of the one
\* before it, the first to the column as it was given, and the last result is
\* the column that is returned.
C7_FixedActionOrder ==
    apc = "done" =>
        \A i \in 1..Len(feedback) :
            LET c == feedback[i].col
                log == LogOf(c)
            IN  c \in SeqToSet(Out.columns) =>
                    /\ [j \in 1..Len(log) |-> log[j].action]
                           = AcceptedInFixedOrder(feedback[i].actions)
                    /\ \A j \in 1..Len(log) :
                           log[j].before = IF j = 1 THEN df0.data[c] ELSE log[j - 1].after
                    /\ Out.data[c] = IF log = <<>> THEN df0.data[c] ELSE log[Len(log)].after
                    /\ (c \in Out.cat) <=> (\E j \in 1..Len(log) : log[j].action = "categorize")

C7_Witness ==
    /\ apc = "done"
    /\ Len(feedback) = 1
    /\ feedback[1].col = "a"
    /\ Len(feedback[1].actions) = 6
    /\ feedback[1].actions[1].name = "enrich"
    /\ feedback[1].actions[2].name = "categorize"
    /\ df0.data["a"] = <<NaN, Str(<<"N", "u", "r", "s", "e">>)>>
    /\ Len(applied) = 4
    /\ [j \in 1..Len(applied) |-> applied[j].action]
           = <<"fill", "mask", "generalize", "categorize">>
    /\ applied[1].after = <<Str(<<"N", "u", "r", "s", "e">>), Str(<<"N", "u", "r", "s", "e">>)>>
    /\ applied[2].after = <<Str(<<"<">> \o CatJob \o <<">">>), Str(<<"<">> \o CatJob \o <<">">>)>>
    /\ applied[3].after = <<Str(OtherCategory), Str(OtherCategory)>>
    /\ "a" \in Out.cat

\* The numeric-parseable values are more than half of the non-missing ones.
MostNonMissingNumeric(series) ==
    2 * Len(NumericValues(series)) > Len(SelectSeq(series, LAMBDA c : c.k \notin {"nan", "none"}))

\* C8: an accepted fill whose value is mean, median, max or min fills the
\* missing cells with that statistic over the numeric-parseable values
\* whenever more than half of the column's non-missing values parse as
\* numeric, and never writes the word itself into such a column.
C8_FillStatisticOverNonMissing ==
    \A j \in 1..Len(applied) :
        \A i \in 1..Len(feedback) :
            LET e == applied[j]
                cfg == Get(feedback[i].actions, "fill")
            IN  (/\ e.action = "fill"
                 /\ feedback[i].col = e.col
                 /\ cfg.value \in {"mean", "median", "max", "min"}
                 /\ MostNonMissingNumeric(e.before))
                => /\ e.after = [r \in 1..Len(e.before) |->
                                   IF e.before[r].k \in {"nan", "none"}
                                   THEN Statistic(cfg.value, NumericValues(e.before))
                                   ELSE e.before[r]]
                   /\ \A r \in 1..Len(e.after) : e.after[r] # Str(WordText(cfg.value))

\* What the job-title mapping makes of one cell.
JobExpected(c) ==
    IF c.k \in {"nan", "none"} THEN c
    ELSE IF Lower(Strip(PyStr(c))) = <<"n", "u", "r", "s", "e">> THEN Str(Healthcare)
    ELSE Str(OtherCategory)

\* The first non-missing cell of a column as text, "" when it has none.
FirstPresent(series) ==
    IF \A i \in 1..Len(series) : series[i].k \in {"nan", "none"} THEN <<>>
    ELSE PyStr(series[CHOOSE i \in 1..Len(series) :
                   /\ series[i].k \notin {"nan", "none"}
                   /\ \A h \in 1..(i - 1) : series[h].k \in {"nan", "none"}])

\* C9: an accepted generalize chooses one transformation for the whole column
\* from one non-missing sample value (the first of the column as given): when
\* the sample matches the date pattern every cell is decade-generalized,
\* otherwise every cell goes through the job-title mapping (looked up without
\* regard to case, "other" for an unknown title, a missing cell left missing).
C9_GeneralizeBySample ==
    \A j \in 1..Len(applied) :
        LET e == applied[j]
        IN  e.action = "generalize" =>
                IF _DATE_RE_match(FirstPresent(df0.data[e.col]))
                THEN e.after = [r \in 1..Len(e.before) |-> generalize_date_to_decade(e.before[r])]
                ELSE e.after = [r \in 1..Len(e.before) |-> JobExpected(e.before[r])]

C9_Witness ==
    /\ apc = "done"
    /\ Len(applied) = 2
    /\ applied[1] = [col |-> "a", action |-> "generalize",
                     before |-> <<Str(<<"N", "u", "r", "s", "e">>), NaN>>,
                     after |-> <<Str(Healthcare), NaN>>]
    /\ applied[2] = [col |-> "b", action |-> "generalize",
                     before |-> <<Str(<<"1", "9", "8", "3", "-", "1", "1", "-", "1", "2">>), NaN>>,
                     after |-> <<Str(<<"1", "9", "8", "0", "s">>), NaN>>]

\* A sample that is neither date-shaped nor a title of the job mapping
\* (the empty sample of a column without values among them).
AmbiguousSample(sample_val) ==
    /\ ~_DATE_RE_match(sample_val)
    /\ Lower(Strip(sample_val)) \notin DOMAIN jobs_map

\* C26: when the sample value inspected by generalize is ambiguous, the
\* fraction of the whole column that matches the date pattern decides: at
\* 50% or more every cell is decade-generalized, below it every cell goes
\* through the job-title mapping.
C26_AmbiguousSampleFallsBack ==
    \A j \in 1..Len(applied) :
        LET e == applied[j]
            dateLike == {r \in 1..Len(e.before) : _DATE_RE_match(PyStr(e.before[r]))}
        IN  (e.action = "generalize" /\ AmbiguousSample(FirstPresent(df0.data[e.col]))) =>
                IF 2 * Cardinality(dateLike) >= Len(e.before)
                THEN e.after = [r \in 1..Len(e.before) |-> generalize_date_to_decade(e.before[r])]
                ELSE e.after = [r \in 1..Len(e.before) |-> JobExpected(e.before[r])]

\* What the code does with such a sample: the job-title mapping, whatever
\* the rest of the column holds.
AmbiguousSampleMeansJob ==
    \A j \in 1..Len(applied) :
        LET e == applied[j]
        IN  (e.action = "generalize" /\ AmbiguousSample(FirstPresent(df0.data[e.col]))) =>
                e.after = [r \in 1..Len(e.before) |-> JobExpected(e.before[r])]

\* C11: an accepted mask rewrites every non-missing cell of the column
\* through span resolution and masking and leaves every missing cell missing:
\* the column keeps its number of rows, a cell is missing afterwards iff it
\* was missing before, a cell whose whole text is one detected span becomes
\* exactly "<category>", and a cell with no detected span keeps its text.
C11_MaskKeepsMissing ==
    \A j \in 1..Len(applied) :
        LET e == applied[j]
        IN  e.action = "mask" =>
                /\ Len(e.after) = Len(e.before)
                /\ \A r \in 1..Len(e.before) :
                       IF e.before[r].k \in {"nan", "none"}
                       THEN e.after[r].k \in {"nan", "none"}
                       ELSE /\ e.after[r].k = "str"
                            /\ e.after[r].s = IF analyzer = "whole" /\ PyStr(e.before[r]) # <<>>
                                              THEN <<"<">> \o CatJob \o <<">">>
                                              ELSE PyStr(e.before[r])

C11_Witness ==
    /\ apc = "done"
    /\ analyzer = "whole"
    /\ Len(applied) = 1
    /\ applied[1].action = "mask"
    /\ applied[1].before = <<NaN, Str(<<"N", "u", "r", "s", "e">>)>>
    /\ applied[1].after = <<PyNone, Str(<<"<">> \o CatJob \o <<">">>)>>

(***************************************************************************)
(* SpecDate: texts written as dates, year known, and texts that are none   *)
(***************************************************************************)
YearTexts == {<<"1", "9", "8", "3">>, <<"2", "0", "0", "3">>, <<"2", "0", "2", "5">>, <<"0", "0", "0", "0">>, <<"1", "9", "9", "9">>}
MonthTexts == {<<"1">>, <<"0", "4">>, <<"1", "1">>, <<"1", "3">>, <<"0", "0">>}
DayTexts == {<<"4">>, <<"0", "4">>, <<"1", "2">>, <<"3", "1">>, <<"4", "5">>, <<"2", "9">>}
Separators == {<<"-">>, <<"/">>}

RECURSIVE Spaces(_)
Spaces(n) == IF n = 0 THEN <<>> ELSE <<" ">> \o Spaces(n - 1)

Padded(t, p) == Spaces(p) \o t \o Spaces(p)

\* YYYY, YYYY-MM, YYYY-MM-DD, DD-MM-YYYY, with - or /
DateTexts ==
    { [text |-> y, year |-> DigitsToInt(y)] : y \in YearTexts } \cup
    { [text |-> y \o a \o m, year |-> DigitsToInt(y)] :
        y \in YearTexts, a \in Separators, m \in MonthTexts } \cup
    { [text |-> y \o a \o m \o b \o d, year |-> DigitsToInt(y)] :
        y \in YearTexts, a \in Separators, m \in MonthTexts, b \in Separators, d \in DayTexts } \cup
    { [text |-> d \o a \o m \o b \o y, year |-> DigitsToInt(y)] :
        y \in YearTexts, a \in Separators, m \in MonthTexts, b \in Separators, d \in DayTexts }

OtherTexts ==
    { <<>>, <<"a", "b", "c">>, <<"n", "a", "n">>, <<"1", "2", "/", "2", "0", "2", "0">>,
      <<"2", "0", "0", "3", ".", "0">>,
      <<"2", "0", "0", "3", "5">>,
      <<"8", "3", "-", "1", "1", "-", "1", "2">>,
      <<"1", "9", "8", "3", "-", "1", "1", "-", "1", "2", "-", "0", "1">>,
      <<"1", "9", "8", "3", ".", "1", "1", ".", "1", "2">>,
      <<"1", "9", "8", "3", "-">>,
      <<"1", "9", "8", "3", "-", "1", "1", "-", "1", "2", "T">>,
      <<"1", "9", " ", "8", "3">>,
      <<"x", "2", "0", "0", "3">> }

DateInputs ==
    { [val |-> Str(Padded(t.text, p)), year |-> t.year] : t \in DateTexts, p \in 0..MaxPad } \cup
    { [val |-> Str(Padded(t, p)), year |-> -1] : t \in OtherTexts, p \in 0..MaxPad } \cup
    { [val |-> IntCell(2003), year |-> 2003], [val |-> FloatCell(2003, 1), year |-> -1],
      [val |-> NaN, year |-> -1], [val |-> PyNone, year |-> -1] }

InitDate == IdleResolve /\ IdleDate /\ IdleApply /\ IdleSample /\ IdleHeader /\ IdleRecommend /\ IdleQuality /\ IdleEntities /\ IdleRuns /\ IdlePii

GeneralizeDate ==
    /\ dpc = "idle"
    /\ \E in \in DateInputs :
          /\ dval' = in.val
          /\ dexpect' = in.year
          /\ dres' = generalize_date_to_decade(in.val)
    /\ dpc' = "done"
    /\ UNCHANGED <<resolveVars, applyVars, sampleVars, headerVars, recVars, qualityVars, entityVars, runVars, piiVars>>

NextDate == GeneralizeDate

SpecDate == InitDate /\ [][NextDate]_vars

\* C10: a value written as a date with year y becomes floor(y/10)*10 followed
\* by "s"; every other input is returned unchanged.
C10_DecadeOrUnchanged ==
    dpc = "done" =>
        IF dexpect >= 0
        THEN dres = Str(IntToStr((dexpect \div 10) * 10) \o <<"s">>)
        ELSE dres = dval

C10_Witness ==
    /\ dpc = "done"
    /\ dval = Str(<<"2", "0", "2", "5", "/", "0", "4", "/", "0", "4">>)
    /\ dres = Str(<<"2", "0", "2", "0", "s">>)

(***************************************************************************)
(* adaptive_sampling: csv_pii.py lines 49-57                               *)
(***************************************************************************)
\* The defaults of the signature, threshold=0.3 (in tenths) and min_samples=30.
DEFAULT_THRESHOLD == 3
DEFAULT_MIN_SAMPLES == 30

\* int(length * threshold) for a threshold of t tenths: the float product of
\* these operands truncates to the exact floor.
IntOfProduct(length, t) == (length * t) \div 10

\* Mutant: a table of exactly min_samples rows is taken whole.
TakesAllRows_Inclusive(length, min) == length <= min

\* if length < min_samples: return rows
TakesAllRows(length, min) == length < min

adaptive_sampling(rs, t, min) ==
    IF TakesAllRows(Len(rs), min) THEN rs
    ELSE Slice(rs, 0, Min(IntOfProduct(Len(rs), t), min))

\* The calls: the rows are numbered, the arguments are the defaults or others.
SampleThresholds == {DEFAULT_THRESHOLD, 5}
SampleMinimums == {DEFAULT_MIN_SAMPLES, 4}

Sample ==
    /\ spc = "idle"
    /\ \E n \in 0..MaxSampleRows, t \in SampleThresholds, min \in SampleMinimums :
          /\ rows' = [i \in 1..n |-> i]
          /\ threshold' = t
          /\ min_samples' = min
          /\ sample' = adaptive_sampling([i \in 1..n |-> i], t, min)
    /\ spc' = "done"
    /\ UNCHANGED <<resolveVars, dateVars, applyVars, headerVars, recVars, qualityVars, entityVars, runVars, piiVars>>

NextSample == Sample

InitSample == IdleResolve /\ IdleDate /\ IdleApply /\ IdleSample /\ IdleHeader /\ IdleRecommend /\ IdleQuality /\ IdleEntities /\ IdleRuns /\ IdlePii

SpecSample == InitSample /\ [][NextSample]_vars

\* C19: adaptive_sampling returns all n rows when n < min_samples and
\* otherwise exactly the first min(floor(n * ratio), min_samples) rows; the
\* sample is always a prefix of the rows in their order.
C19_SampleIsPrefix ==
    spc = "done" =>
        LET n == Len(rows)
            want == IF n < min_samples THEN n
                    ELSE IF (n * threshold) \div 10 < min_samples
                         THEN (n * threshold) \div 10 ELSE min_samples
        IN  /\ Len(sample) = want
            /\ \A i \in 1..Len(sample) : i <= n /\ sample[i] = rows[i]

C19_Witness ==
    /\ spc = "done"
    /\ threshold = 3
    /\ min_samples = 30
    /\ Len(rows) = 30
    /\ Len(sample) = 9

(***************************************************************************)
(* score_header, one header: csv_pii.py lines 20-44                        *)
(***************************************************************************)
\* The keys of ENTITY_SYNONYMS in the order of the file; the first has
\* MaxSynonyms synonyms, the others one.
SynonymEntities == <<"EMAIL_ADDRESS", "JOB_TITLE", "DATE_TIME">>

NoEntity == "None"

\* The default of the signature and of every caller: threshhold=70.
DEFAULT_THRESHHOLD == 70

\* What token_set_ratio can return, between 0 and 100.
RatioValues == {0, 69, 70, 71, 100}

\* if score > best_score: best_score = score; best_match = entity
Improve(best, entity, score) ==
    IF score > best.score THEN [entity |-> entity, score |-> score] ELSE best

RECURSIVE BestOfSynonyms(_, _, _)
BestOfSynonyms(best, entity, scores) ==
    IF scores = <<>> THEN best
    ELSE BestOfSynonyms(Improve(best, entity, Head(scores)), entity, Tail(scores))

RECURSIVE BestOfEntities(_, _, _)
BestOfEntities(best, entities, ratio_table) ==
    IF entities = <<>> THEN best
    ELSE BestOfEntities(BestOfSynonyms(best, Head(entities), Head(ratio_table)),
                        Tail(entities), Tail(ratio_table))

\* Mutant: a best score equal to the threshold does not pass.
PassesThreshhold_Strict(best_score, th) == best_score > th

\* if best_score >= threshhold
PassesThreshhold(best_score, th) == best_score >= th

\* The entry written for one header, given the ratio of every synonym.
score_header(ratio_table, th) ==
    LET best == BestOfEntities([entity |-> NoEntity, score |-> 0], SynonymEntities, ratio_table)
    IN  IF PassesThreshhold(best.score, th)
        THEN [entity |-> best.entity, score |-> best.score]
        ELSE [entity |-> NoEntity, score |-> best.score]

RatioTables ==
    { <<first, <<second>>, <<third>>>> :
        first \in UNION {[1..n -> RatioValues] : n \in 1..MaxSynonyms},
        second \in RatioValues, third \in RatioValues }

ScoreHeader ==
    /\ hpc = "idle"
    /\ \E ratio_table \in RatioTables, th \in {DEFAULT_THRESHHOLD, 100} :
          /\ ratios' = ratio_table
          /\ threshhold' = th
          /\ header_match' = score_header(ratio_table, th)
    /\ hpc' = "done"
    /\ UNCHANGED <<resolveVars, dateVars, applyVars, sampleVars, recVars, qualityVars, entityVars, runVars, piiVars>>

NextHeader == ScoreHeader

InitHeader == IdleResolve /\ IdleDate /\ IdleApply /\ IdleSample /\ IdleHeader /\ IdleRecommend /\ IdleQuality /\ IdleEntities /\ IdleRuns /\ IdlePii

SpecHeader == InitHeader /\ [][NextHeader]_vars

\* Every (entity, ratio) pair of the ratio_table, in the order of the loops.
RECURSIVE RatioPairs(_, _)
RatioPairs(entities, ratio_table) ==
    IF entities = <<>> THEN <<>>
    ELSE [i \in 1..Len(Head(ratio_table)) |-> [entity |-> Head(entities), score |-> Head(ratio_table)[i]]]
         \o RatioPairs(Tail(entities), Tail(ratio_table))

\* C20: score_header emits one result per header: when the best score is at
\* least the threshold, the entity of the best-scoring synonym (the first of
\* them in the order of the table) with that score, never the entity None;
\* when it is below the threshold, the entity None with the best score still
\* reported.
C20_HeaderMatch ==
    hpc = "done" =>
        LET pairs == RatioPairs(SynonymEntities, ratios)
            top == CHOOSE i \in 1..Len(pairs) :
                       /\ \A j \in 1..Len(pairs) : pairs[j].score <= pairs[i].score
                       /\ \A j \in 1..(i - 1) : pairs[j].score < pairs[i].score
        IN  /\ header_match.score = pairs[top].score
            /\ IF pairs[top].score >= threshhold
               THEN header_match.entity = pairs[top].entity /\ header_match.entity # "None"
               ELSE header_match.entity = "None"

C20_Witness ==
    /\ hpc = "done"
    /\ threshhold = 70
    /\ ratios = <<<<69, 70>>, <<70>>, <<0>>>>
    /\ header_match = [entity |-> "EMAIL_ADDRESS", score |-> 70]

(***************************************************************************)
(* The rules of recommendation.py: analyze_table_na, process_pii,          *)
(* enrich_headers, analyze_categorization, and their grouping              *)
(*                                                                         *)
(* A column is its profile: how many cells are missing, how many distinct  *)
(* values the others hold, its dtype, the entity score_header guessed, the *)
(* entities the recognizer finds in the sampled rows and in all rows (in   *)
(* order of first detection), the cluster of its header.  A dict is the    *)
(* sequence of its items in insertion order.                               *)
(***************************************************************************)
\* NA_THRESHOLD = 0.6 in tenths, UNIQNESS_THRESHOLD = 0.05 in hundredths.
NA_THRESHOLD == 6
UNIQNESS_THRESHOLD == 5
MAX_UNIQUE_ABSOLUTE == 50
GENERALIZED_ENTITIES == {"DATE_TIME", "JOB_TITLE"}
ENRICHABLE_HEADERS == {2}

\* A recommendation; num/den is its percentage or ratio, which is a number,
\* NaN (the mean of no rows) or not among its keys.
Rec(action, reason, entity, num, den, filling) ==
    [action |-> action, reason |-> reason, entity |-> entity,
     ratio |-> IF action \notin {"fill", "drop", "categorize"} THEN "absent"
               ELSE IF den = 0 THEN "nan" ELSE "number",
     num |-> num, den |-> den, filling |-> filling]

Item(col, rec) == [col |-> col, rec |-> rec]

\* Mutant: a column at the threshold is still filled.
InFillRange_Inclusive(m, n) == n > 0 /\ 0 < m /\ 10 * m <= NA_THRESHOLD * n

\* 0 < na_percentage < NA_THRESHOLD, na_percentage = m/n (NaN for n = 0)
InFillRange(m, n) == n > 0 /\ 0 < m /\ 10 * m < NA_THRESHOLD * n

\* analyze_table_na, lines 130-165
RECURSIVE analyze_table_na(_, _)
analyze_table_na(columns, n) ==
    IF columns = <<>> THEN <<>>
    ELSE LET c == Head(columns)
             rec == IF InFillRange(c.missing, n)
                    THEN Rec("fill", "some values are missing", "", c.missing, n,
                             IF c.numeric THEN "mean median max min" ELSE "mode")
                    ELSE Rec("drop", "high percentage of missing values", "", c.missing, n, "")
         IN  (IF n > 0 /\ c.missing = 0 THEN <<>> ELSE <<Item(c.name, rec)>>)
             \o analyze_table_na(Tail(columns), n)

\* sorted(entity.items(), key=lambda x: x[1], reverse=True): stable
RECURSIVE SortHits(_)
SortHits(hits) ==
    IF hits = <<>> THEN <<>>
    ELSE LET rest == SortHits(SubSeq(hits, 1, Len(hits) - 1))
             h == hits[Len(hits)]
             before == SelectSeq(rest, LAMBDA x : x.count >= h.count)
             after == SelectSeq(rest, LAMBDA x : x.count < h.count)
         IN  before \o <<h>> \o after

\* full_analyze, lines 168-201
full_analyze(hits) ==
    IF hits = <<>>
    THEN Rec("keep", "no significant PII detected", "None", 0, 0, "")
    ELSE LET top_ent == SortHits(hits)[1].entity
         IN  Rec(IF top_ent \notin GENERALIZED_ENTITIES THEN "mask" ELSE "generalize",
                 "detected PII entities", top_ent, 0, 0, "")

\* Mutant: any detection in the sample confirms the guess.
IsConfirmed_AnyHit(guess, top_entities) ==
    \E i \in 1..Len(top_entities) : top_entities[i].count > 0

\* any(ent == guessed_entity and cnt > 0 for ent, cnt in top_entities)
IsConfirmed(guess, top_entities) ==
    \E i \in 1..Len(top_entities) :
        top_entities[i].entity = guess /\ top_entities[i].count > 0

\* process_pii for one header, lines 217-233; sample_analyze profiles only
\* the headers that score_header matched (csv_pii.py line 67).
PiiRec(c) ==
    IF c.guess = NoEntity THEN full_analyze(c.fullHits)
    ELSE IF IsConfirmed(c.guess, SortHits(c.sampleHits))
    THEN Rec(IF c.guess \notin GENERALIZED_ENTITIES THEN "mask" ELSE "generalize",
             "confirmed PII entity", c.guess, 0, 0, "")
    ELSE full_analyze(c.fullHits)

process_pii(columns) == [i \in 1..Len(columns) |-> Item(columns[i].name, PiiRec(columns[i]))]

\* enrich_headers, lines 246-269
enrich_headers(columns) ==
    [i \in 1..Len(columns) |->
        Item(columns[i].name,
             IF columns[i].cluster \in ENRICHABLE_HEADERS
             THEN Rec("enrich", "header matches enrichable cluster", "", 0, 0, "")
             ELSE Rec("keep", "no enrichment recommended", "", 0, 0, ""))]

\* Mutant: a column at the uniqueness threshold is not categorized.
LowUniqueness_Strict(u, n) ==
    100 * u < UNIQNESS_THRESHOLD * n /\ u <= MAX_UNIQUE_ABSOLUTE

\* (uniqueness_ratio <= UNIQNESS_THRESHOLD) and (unique_count <= MAX_UNIQUE_ABSOLUTE)
LowUniqueness(u, n) ==
    100 * u <= UNIQNESS_THRESHOLD * n /\ u <= MAX_UNIQUE_ABSOLUTE

\* analyze_categorization, lines 274-291
RECURSIVE analyze_categorization(_, _)
analyze_categorization(columns, n) ==
    IF columns = <<>> THEN <<>>
    ELSE LET c == Head(columns)
         IN  (IF n # 0 /\ LowUniqueness(c.unique, n)
              THEN <<Item(c.name, Rec("categorize", "Low uniqueness ratio", "", c.unique, n, ""))>>
              ELSE <<>>)
             \o analyze_categorization(Tail(columns), n)

\* all_results.setdefault(col, []).append(rec), lines 411-414
RECURSIVE Collect(_, _)
Collect(all, items) ==
    IF items = <<>> THEN all
    ELSE LET it == Head(items)
             at == {i \in 1..Len(all) : all[i].col = it.col}
         IN  Collect(IF at = {}
                     THEN Append(all, [col |-> it.col, recs |-> <<it.rec>>])
                     ELSE [all EXCEPT ![CHOOSE i \in at : TRUE].recs = Append(@, it.rec)],
                     Tail(items))

\* Mutant: the keeps stay in the lists.
WithoutKeep_All(recs) == recs

\* filtered = [r for r in recs if r.get("action") != "keep"]
WithoutKeep(recs) == SelectSeq(recs, LAMBDA r : r.action # "keep")

\* lines 415-418
RECURSIVE Group(_)
Group(all) ==
    IF all = <<>> THEN <<>>
    ELSE (IF WithoutKeep(Head(all).recs) # <<>>
          THEN <<[col |-> Head(all).col, recs |-> WithoutKeep(Head(all).recs)]>>
          ELSE <<>>)
         \o Group(Tail(all))

(***************************************************************************)
(* recommend_actions after the rules: the answer of the decision maker,    *)
(* the plan read from it, the payload (lines 420-445, util.py 7-35)        *)
(*                                                                         *)
(* The answer is a sequence of lexical tokens: punctuation, JSON strings,  *)
(* numbers, white space, and words that are no JSON.                       *)
(***************************************************************************)
Tok(t, x) == [t |-> t, s |-> x]
LB == Tok("punct", "{")
RB == Tok("punct", "}")
LS == Tok("punct", "[")
RS == Tok("punct", "]")
COLON == Tok("punct", ":")
COMMA == Tok("punct", ",")
SP == Tok("space", " ")
NUM == Tok("number", "1")
NAN == Tok("number", "NaN")
WORD == Tok("word", "timeout")
QUOTED(x) == Tok("string", x)

EndOfText == Tok("end", "")
TokAt(t, i) == IF i \in 1..Len(t) THEN t[i] ELSE EndOfText

\* str.strip() on the tokens
RECURSIVE StripTokens(_)
StripTokens(t) ==
    IF t = <<>> THEN t
    ELSE IF Head(t) = SP THEN StripTokens(Tail(t))
    ELSE IF t[Len(t)] = SP THEN StripTokens(SubSeq(t, 1, Len(t) - 1))
    ELSE t

\* cleaned.find("{") and cleaned.rfind("}"), 0-based, -1 when absent
Find(t, tok) ==
    IF \E i \in 1..Len(t) : t[i] = tok
    THEN (CHOOSE i \in 1..Len(t) : t[i] = tok /\ \A h \in 1..(i - 1) : t[h] # tok) - 1
    ELSE -1

RFind(t, tok) ==
    IF \E i \in 1..Len(t) : t[i] = tok
    THEN (CHOOSE i \in 1..Len(t) : t[i] = tok /\ \A h \in (i + 1)..Len(t) : t[h] # tok) - 1
    ELSE -1

\* lines 422-429: what is handed to json.loads
Cleaned(answer) ==
    IF ~answer.isStr THEN <<>>
    ELSE LET cleaned == StripTokens(answer.text)
             i == Find(cleaned, LB)
             j == RFind(cleaned, RB)
         IN  IF i # -1 /\ j # -1 THEN Slice(cleaned, i, j + 1) ELSE cleaned

\* A JSON value: an object holds its members (key, val) as a dict would
\* (a repeated key keeps its first place and its last value), an array its
\* items, a string its text.
JsonValue(kind, text, items) == [kind |-> kind, text |-> text, items |-> items]
EmptyObject == JsonValue("object", "", <<>>)
ParseFailure == [ok |-> FALSE, next |-> 0, val |-> JsonValue("none", "", <<>>)]

PutMember(members, key, val) ==
    IF \E i \in 1..Len(members) : members[i].key = key
    THEN [members EXCEPT ![CHOOSE i \in 1..Len(members) : members[i].key = key].val = val]
    ELSE Append(members, [key |-> key, val |-> val])

\* json.loads over the tokens, white space already skipped: a recursive
\* descent; next is the position after the value.
RECURSIVE ParseValue(_, _), ParseMembers(_, _, _), ParseElements(_, _, _)
ParseValue(t, i) ==
    LET tok == TokAt(t, i)
    IN  CASE tok = LB ->
               IF TokAt(t, i + 1) = RB
               THEN [ok |-> TRUE, next |-> i + 2, val |-> EmptyObject]
               ELSE ParseMembers(t, i + 1, <<>>)
          [] tok = LS ->
               IF TokAt(t, i + 1) = RS
               THEN [ok |-> TRUE, next |-> i + 2, val |-> JsonValue("array", "", <<>>)]
               ELSE ParseElements(t, i + 1, <<>>)
          [] tok.t = "string" -> [ok |-> TRUE, next |-> i + 1, val |-> JsonValue("string", tok.s, <<>>)]
          [] tok.t = "number" -> [ok |-> TRUE, next |-> i + 1, val |-> JsonValue("number", tok.s, <<>>)]
          [] OTHER -> ParseFailure

ParseMembers(t, i, members) ==
    IF TokAt(t, i).t # "string" \/ TokAt(t, i + 1) # COLON THEN ParseFailure
    ELSE LET v == ParseValue(t, i + 2)
             all == PutMember(members, TokAt(t, i).s, v.val)
         IN  IF ~v.ok THEN ParseFailure
             ELSE IF TokAt(t, v.next) = COMMA THEN ParseMembers(t, v.next + 1, all)
             ELSE IF TokAt(t, v.next) = RB
             THEN [ok |-> TRUE, next |-> v.next + 1, val |-> JsonValue("object", "", all)]
             ELSE ParseFailure

ParseElements(t, i, items) ==
    LET v == ParseValue(t, i)
    IN  IF ~v.ok THEN ParseFailure
        ELSE IF TokAt(t, v.next) = COMMA THEN ParseElements(t, v.next + 1, Append(items, v.val))
        ELSE IF TokAt(t, v.next) = RS
        THEN [ok |-> TRUE, next |-> v.next + 1, val |-> JsonValue("array", "", Append(items, v.val))]
        ELSE ParseFailure

\* json.loads(text): one value and nothing after it, or an exception
json_loads(t) ==
    LET sig == SelectSeq(t, LAMBDA k : k # SP)
        v == ParseValue(sig, 1)
    IN  IF v.ok /\ v.next = Len(sig) + 1 THEN v ELSE ParseFailure

\* Mutant: whatever parses is taken as the plan.
PlanOf_NoTypeCheck(cleaned) ==
    IF cleaned = <<>> THEN EmptyObject
    ELSE IF json_loads(cleaned).ok THEN json_loads(cleaned).val
    ELSE EmptyObject

\* lines 431-436: {} for an empty text, an exception, or a non-dict
PlanOf(cleaned) ==
    IF cleaned = <<>> THEN EmptyObject
    ELSE IF json_loads(cleaned).ok /\ json_loads(cleaned).val.kind = "object"
    THEN json_loads(cleaned).val
    ELSE EmptyObject

\* util.py line 34
NO_RECOMMENDATION == "We don t have recommendation for this column"

\* json_safe on a recommendation: a NaN percentage becomes None
json_safe(rec) == [rec EXCEPT !.ratio = IF @ = "nan" THEN "null" ELSE @]

\* json_safe on a value json.loads returned, util.py lines 8-23: a number
\* that is NaN or infinite becomes None, everything else is rebuilt as it is.
RECURSIVE json_safe_value(_)
json_safe_value(v) ==
    CASE v.kind = "number" ->
            IF v.text \in {"NaN", "Infinity", "-Infinity"}
            THEN JsonValue("null", "", <<>>) ELSE v
      [] v.kind = "object" ->
            JsonValue("object", "",
                      [m \in 1..Len(v.items) |->
                          [key |-> v.items[m].key, val |-> json_safe_value(v.items[m].val)]])
      [] v.kind = "array" ->
            JsonValue("array", "", [m \in 1..Len(v.items) |-> json_safe_value(v.items[m])])
      [] OTHER -> v

\* llm_output[key]
PlanEntry(llm_output, key) ==
    llm_output.items[CHOOSE m \in 1..Len(llm_output.items) : llm_output.items[m].key = key].val

\* Mutant: only the first action of the entry is kept.
LlmEntry_FirstAction(llm_output, key) ==
    LET entry == PlanEntry(llm_output, key)
    IN  IF entry.kind = "object" /\ Len(entry.items) > 1
        THEN JsonValue("object", "", <<entry.items[1]>>)
        ELSE entry

\* out[key]["llm"] = json_safe(llm_output[key])   (util.py line 32)
LlmEntry(llm_output, key) == json_safe_value(PlanEntry(llm_output, key))

\* serialize_recommendation(rec, llm_output), util.py lines 25-35
serialize_recommendation(rec, llm_output) ==
    [i \in 1..Len(rec) |->
        [col |-> rec[i].col,
         manual |-> [k \in 1..Len(rec[i].recs) |-> json_safe(rec[i].recs[k])],
         llm |-> IF \E m \in 1..Len(llm_output.items) : llm_output.items[m].key = rec[i].col
                 THEN LlmEntry(llm_output, rec[i].col)
                 ELSE JsonValue("string", NO_RECOMMENDATION, <<>>)]]

(***************************************************************************)
(* SpecRecommend: recommend_actions on tables of two columns               *)
(***************************************************************************)
Hit(entity, count) == [entity |-> entity, count |-> count]

\* What the recognizer finds in the sampled rows and in all rows.
Detections ==
    { [sample |-> <<>>, full |-> <<>>, cells |-> 0],
      [sample |-> <<>>, full |-> <<Hit("EMAIL_ADDRESS", 1)>>, cells |-> 1],
      [sample |-> <<Hit("EMAIL_ADDRESS", 1)>>, full |-> <<Hit("EMAIL_ADDRESS", 2)>>, cells |-> 2],
      [sample |-> <<Hit("PERSON", 1), Hit("DATE_TIME", 1)>>,
       full |-> <<Hit("PERSON", 1), Hit("DATE_TIME", 2)>>, cells |-> 2],
      [sample |-> <<Hit("JOB_TITLE", 1)>>,
       full |-> <<Hit("JOB_TITLE", 1), Hit("PERSON", 1)>>, cells |-> 2] }

Guesses == {NoEntity, "EMAIL_ADDRESS", "DATE_TIME", "JOB_TITLE"}

RowCounts == {0, 5, 20, 1020}
MissingCounts(n) == {0, 1, (3 * n) \div 5, n} \cap 0..n
UniqueCounts(n, m) == IF n = m THEN {0} ELSE {1, 2, 50, 51} \cap 1..(n - m)

Column(name, m, u, numeric, guess, det, cluster) ==
    [name |-> name, missing |-> m, unique |-> u, numeric |-> numeric, guess |-> guess,
     sampleHits |-> det.sample, fullHits |-> det.full, cluster |-> cluster]

\* The profiles of column a in a table of n rows.  Only a matched header is
\* sampled, and the dtype matters only where a fill is recommended.
ProfilesA(n) ==
    { p \in [missing : MissingCounts(n), unique : {0, 1, 2, 50, 51}, numeric : BOOLEAN,
             guess : Guesses, det : Detections, cluster : {0, 2}] :
        /\ p.unique \in UniqueCounts(n, p.missing)
        /\ p.det.cells <= n
        /\ (p.guess = NoEntity => p.det.sample = <<>>)
        /\ (p.numeric => InFillRange(p.missing, n)) }

NoDetection == [sample |-> <<>>, full |-> <<>>, cells |-> 0]

\* Column b is a key column without gaps, or a column without values; the
\* frame lists it after a or before it.
Tables ==
    UNION { { [rows |-> n,
               columns |->
                   LET a == Column("a", p.missing, p.unique, p.numeric, p.guess, p.det, p.cluster)
                       b == IF shape = "key"
                            THEN Column("b", 0, n, FALSE, NoEntity, NoDetection, 0)
                            ELSE Column("b", n, 0, FALSE, NoEntity, NoDetection, 0)
                   IN  IF shape = "empty first" THEN <<b, a>> ELSE <<a, b>>] :
                p \in ProfilesA(n), shape \in {"key", "empty", "empty first"} } :
            n \in RowCounts }

Answer(isStr, text) == [isStr |-> isStr, text |-> text]

\* {"<col>": {"text": "x"}}
PlanText(col) == <<LB, QUOTED(col), COLON, LB, QUOTED("text"), COLON, QUOTED("x"), RB, RB>>

\* "<name>": {"status": "<status>"}
ActionText(name, status) ==
    <<QUOTED(name), COLON, LB, QUOTED("status"), COLON, QUOTED(status), RB>>

\* {"a": {"mask": {"status": "accepted"}, "encrypt": {"status": "accepted"},
\*        "drop": {"status": "rejected"}}}: two accepted actions, one of them
\* an action no rule proposes
TwoAcceptedPlan ==
    <<LB, QUOTED("a"), COLON, LB>> \o ActionText("mask", "accepted") \o <<COMMA, SP>>
        \o ActionText("encrypt", "accepted") \o <<COMMA, SP>>
        \o ActionText("drop", "rejected") \o <<RB, RB>>

\* {"a": {"fill": {"status": "accepted", "value": NaN}}}
NaNPlan ==
    <<LB, QUOTED("a"), COLON, LB, QUOTED("fill"), COLON, LB, QUOTED("status"), COLON,
      QUOTED("accepted"), COMMA, QUOTED("value"), COLON, NAN, RB, RB, RB>>

\* What ask_llm can return: None, "", white space, "[ollama] timeout", words,
\* words in braces, a JSON array, a JSON number, a plan, a plan inside text, a
\* plan for two columns, {}, a plan followed by words in braces, two plans,
\* an array holding a plan, braces the wrong way round, a plan that accepts
\* two actions, a plan with a NaN.
Answers ==
    { Answer(FALSE, <<>>),
      Answer(TRUE, <<>>),
      Answer(TRUE, <<SP>>),
      Answer(TRUE, <<LS, WORD, RS, SP, WORD>>),
      Answer(TRUE, <<WORD, SP, WORD>>),
      Answer(TRUE, <<WORD, SP, LB, WORD, RB>>),
      Answer(TRUE, <<LS, NUM, COMMA, NUM, RS>>),
      Answer(TRUE, <<NUM>>),
      Answer(TRUE, PlanText("a")),
      Answer(TRUE, <<WORD, SP>> \o PlanText("a") \o <<SP, WORD>>),
      Answer(TRUE, <<LB, QUOTED("zz"), COLON, NUM, COMMA, QUOTED("b"), COLON, LB, RB, RB>>),
      Answer(TRUE, <<LB, RB>>),
      Answer(TRUE, PlanText("a") \o <<SP, WORD, LB, WORD, RB>>),
      Answer(TRUE, PlanText("a") \o <<SP>> \o PlanText("b")),
      Answer(TRUE, <<LS>> \o PlanText("a") \o <<RS>>),
      Answer(TRUE, <<RB, WORD, LB>>),
      Answer(TRUE, TwoAcceptedPlan),
      Answer(TRUE, NaNPlan) }

\* lines 404-418: the four rules and the grouping
RunRules ==
    /\ rcpc = "idle"
    /\ \E tab \in Tables :
          LET na == analyze_table_na(tab.columns, tab.rows)
              pii == process_pii(tab.columns)
              enrich == enrich_headers(tab.columns)
              cat == analyze_categorization(tab.columns, tab.rows)
          IN  /\ table' = tab
              /\ na_results' = na
              /\ pii_results' = pii
              /\ enrich_results' = enrich
              /\ categorize_results' = cat
              /\ grouped' = Group(Collect(<<>>, na \o pii \o enrich \o cat))
    /\ rcpc' = "grouped"
    /\ UNCHANGED <<raw, parsed_plan, payload,
                   resolveVars, dateVars, applyVars, sampleVars, headerVars, qualityVars, entityVars, runVars, piiVars>>

\* lines 420-421: raw = ask_llm(prompt)
AskLLM ==
    /\ rcpc = "grouped"
    /\ \E answer \in Answers : raw' = answer
    /\ rcpc' = "asked"
    /\ UNCHANGED <<table, na_results, pii_results, enrich_results, categorize_results,
                   grouped, parsed_plan, payload,
                   resolveVars, dateVars, applyVars, sampleVars, headerVars, qualityVars, entityVars, runVars, piiVars>>

\* lines 422-445: the plan, then the payload; llm_output.keys() raises on
\* anything but a dict.
Serialize ==
    /\ rcpc = "asked"
    /\ parsed_plan' = PlanOf(Cleaned(raw)).items
    /\ IF PlanOf(Cleaned(raw)).kind = "object"
       THEN /\ payload' = serialize_recommendation(grouped, PlanOf(Cleaned(raw)))
            /\ rcpc' = "done"
       ELSE /\ payload' = payload
            /\ rcpc' = "raised"
    /\ UNCHANGED <<table, na_results, pii_results, enrich_results, categorize_results,
                   grouped, raw,
                   resolveVars, dateVars, applyVars, sampleVars, headerVars, qualityVars, entityVars, runVars, piiVars>>

NextRecommend == RunRules \/ AskLLM \/ Serialize

InitRecommend ==
    IdleResolve /\ IdleDate /\ IdleApply /\ IdleSample /\ IdleHeader /\ IdleRecommend /\ IdleQuality /\ IdleEntities /\ IdleRuns /\ IdlePii

SpecRecommend == InitRecommend /\ [][NextRecommend]_vars

(***************************************************************************)
(* Claims about the rules and the payload                                  *)
(***************************************************************************)
ItemsOf(result, name) == SelectSeq(result, LAMBDA it : it.col = name)

TableColumns == {table.columns[i] : i \in 1..Len(table.columns)}

\* C12: the missing-value rule emits nothing for a column with 0% missing
\* values, recommends fill when 0% < missing% < 60%, and drop when
\* missing% >= 60%, a column with exactly 60% included (missing% of a column
\* with at least one row).
C12_MissingValueRule ==
    (rcpc # "idle" /\ table.rows > 0) =>
        \A c \in TableColumns :
            LET items == ItemsOf(na_results, c.name)
            IN  IF c.missing = 0 THEN items = <<>>
                ELSE /\ Len(items) = 1
                     /\ items[1].rec.action =
                            IF 100 * c.missing < 60 * table.rows THEN "fill" ELSE "drop"

C12_Witness ==
    /\ rcpc = "grouped"
    /\ table.rows = 5
    /\ \E c \in TableColumns : c.name = "a" /\ c.missing = 3
    /\ Len(ItemsOf(na_results, "a")) = 1
    /\ ItemsOf(na_results, "a")[1].rec.action = "drop"

\* The entity with the highest count, the first detected of them.
TopDetected(hits) ==
    hits[CHOOSE i \in 1..Len(hits) :
             /\ \A j \in 1..Len(hits) : hits[j].count <= hits[i].count
             /\ \A j \in 1..(i - 1) : hits[j].count < hits[i].count].entity

\* C13: a header guess is confirmed iff the guessed entity is among the
\* entities detected in the profile with a non-zero count; a confirmed column
\* is recommended generalize for DATE_TIME and JOB_TITLE and mask otherwise;
\* a column with no guess or an unconfirmed one goes to full-column analysis
\* and is decided by what is detected there.
C13_PiiRule ==
    rcpc # "idle" =>
        \A c \in TableColumns :
            LET items == ItemsOf(pii_results, c.name)
                confirmed == /\ c.guess # "None"
                             /\ \E i \in 1..Len(c.sampleHits) :
                                    c.sampleHits[i].entity = c.guess /\ c.sampleHits[i].count > 0
            IN  /\ Len(items) = 1
                /\ IF confirmed
                   THEN /\ items[1].rec.reason = "confirmed PII entity"
                        /\ items[1].rec.entity = c.guess
                        /\ items[1].rec.action =
                               IF c.guess \in {"DATE_TIME", "JOB_TITLE"} THEN "generalize" ELSE "mask"
                   ELSE IF c.fullHits = <<>>
                   THEN /\ items[1].rec.reason = "no significant PII detected"
                        /\ items[1].rec.action = "keep"
                   ELSE /\ items[1].rec.reason = "detected PII entities"
                        /\ items[1].rec.entity = TopDetected(c.fullHits)
                        /\ items[1].rec.action =
                               IF TopDetected(c.fullHits) \in {"DATE_TIME", "JOB_TITLE"}
                               THEN "generalize" ELSE "mask"

C13_Witness ==
    /\ rcpc = "grouped"
    /\ \E c \in TableColumns :
           /\ c.name = "a"
           /\ c.guess = "DATE_TIME"
           /\ c.sampleHits = <<Hit("PERSON", 1), Hit("DATE_TIME", 1)>>
    /\ Len(ItemsOf(pii_results, "a")) = 1
    /\ ItemsOf(pii_results, "a")[1].rec.action = "generalize"
    /\ ItemsOf(pii_results, "a")[1].rec.reason = "confirmed PII entity"

\* C14: the categorization rule recommends categorize for a column iff
\* unique_count / total_rows <= 0.05 and unique_count <= 50, and recommends
\* nothing for any column of a table with no rows.
C14_CategorizationRule ==
    rcpc # "idle" =>
        \A c \in TableColumns :
            LET items == ItemsOf(categorize_results, c.name)
                low == /\ table.rows > 0
                       /\ 100 * c.unique <= 5 * table.rows
                       /\ c.unique <= 50
            IN  IF low THEN Len(items) = 1 /\ items[1].rec.action = "categorize"
                ELSE items = <<>>

C14_Witness ==
    /\ rcpc = "grouped"
    /\ table.rows = 20
    /\ \E c \in TableColumns : c.name = "a" /\ c.unique = 1 /\ c.missing = 0
    /\ Len(ItemsOf(categorize_results, "a")) = 1

\* C15: in the grouped result no recommendation has action "keep", a column
\* is present iff at least one of the four rules produced a recommendation
\* other than keep for it, and no column is present with an empty list.
C15_GroupedWithoutKeep ==
    rcpc # "idle" =>
        LET produced == na_results \o pii_results \o enrich_results \o categorize_results
        IN  /\ \A i \in 1..Len(grouped) :
                   /\ grouped[i].recs # <<>>
                   /\ \A k \in 1..Len(grouped[i].recs) : grouped[i].recs[k].action # "keep"
                   /\ \A j \in 1..Len(grouped) : grouped[j].col = grouped[i].col => j = i
            /\ \A c \in TableColumns :
                   (\E i \in 1..Len(grouped) : grouped[i].col = c.name)
                   <=> (\E k \in 1..Len(produced) :
                            produced[k].col = c.name /\ produced[k].rec.action # "keep")

C15_Witness ==
    /\ rcpc = "grouped"
    /\ Len(grouped) = 1
    /\ grouped[1].col = "a"
    /\ Len(grouped[1].recs) = 4
    /\ Len(ItemsOf(pii_results, "b")) = 1
    /\ ItemsOf(pii_results, "b")[1].rec.action = "keep"

\* C16: the payload holds exactly the columns of the grouping, each with a
\* "manual" list and an "llm" entry; for a column the plan has no entry for,
\* "llm" is the string "We don't have recommendation for this column".
C16_PayloadShape ==
    rcpc = "done" =>
        /\ Len(payload) = Len(grouped)
        /\ \A i \in 1..Len(payload) :
               /\ payload[i].col = grouped[i].col
               /\ Len(payload[i].manual) = Len(grouped[i].recs)
               /\ IF \E m \in 1..Len(parsed_plan) : parsed_plan[m].key = payload[i].col
                  THEN \E m \in 1..Len(parsed_plan) :
                           parsed_plan[m].key = payload[i].col /\ payload[i].llm = parsed_plan[m].val
                  ELSE payload[i].llm =
                           JsonValue("string", "We don't have recommendation for this column", <<>>)

\* The position of the brace that closes the one opened before position i,
\* 0 when there is none.
RECURSIVE ClosingBrace(_, _, _)
ClosingBrace(t, i, depth) ==
    IF i > Len(t) THEN 0
    ELSE IF t[i] = LB THEN ClosingBrace(t, i + 1, depth + 1)
    ELSE IF t[i] = RB
    THEN (IF depth = 1 THEN i ELSE ClosingBrace(t, i + 1, depth - 1))
    ELSE ClosingBrace(t, i + 1, depth)

\* The first top-level balanced {...} of a text, <<>> when it has none.
FirstBalancedObject(t) ==
    IF Find(t, LB) = -1 \/ ClosingBrace(t, Find(t, LB) + 2, 1) = 0 THEN <<>>
    ELSE SubSeq(t, Find(t, LB) + 1, ClosingBrace(t, Find(t, LB) + 2, 1))

\* C17: from the free-text answer the first top-level balanced {...} JSON
\* object is taken and parsed as the plan, also when further text with braces
\* follows it.
C17_FirstBalancedObjectIsPlan ==
    (rcpc = "done" /\ raw.isStr /\ FirstBalancedObject(raw.text) # <<>>
       /\ json_loads(FirstBalancedObject(raw.text)).ok)
    => parsed_plan = json_loads(FirstBalancedObject(raw.text)).val.items

\* The answers of a decision maker that failed: no answer, an empty one, a
\* timeout message, text that is no JSON, JSON that is no object.
FailedAnswers ==
    { Answer(FALSE, <<>>),
      Answer(TRUE, <<>>),
      Answer(TRUE, <<SP>>),
      Answer(TRUE, <<LS, WORD, RS, SP, WORD>>),
      Answer(TRUE, <<WORD, SP, WORD>>),
      Answer(TRUE, <<WORD, SP, LB, WORD, RB>>),
      Answer(TRUE, <<RB, WORD, LB>>),
      Answer(TRUE, <<LS, NUM, COMMA, NUM, RS>>),
      Answer(TRUE, <<NUM>>) }

\* C18: when the decision maker times out, returns nothing, text that is not
\* JSON, or JSON that is not an object, recommend_actions uses an empty plan
\* and still returns the rule-based recommendations: every grouped column
\* with its whole "manual" list, and no error is raised.
C18_FallbackToEmptyPlan ==
    (rcpc \notin {"idle", "grouped", "asked"} /\ raw \in FailedAnswers) =>
        /\ rcpc = "done"
        /\ parsed_plan = <<>>
        /\ [i \in 1..Len(payload) |-> payload[i].col]
               = [i \in 1..Len(grouped) |-> grouped[i].col]
        /\ \A i \in 1..Len(payload) :
               /\ Len(payload[i].manual) = Len(grouped[i].recs)
               /\ \A k \in 1..Len(payload[i].manual) :
                      /\ payload[i].manual[k].action = grouped[i].recs[k].action
                      /\ payload[i].manual[k].reason = grouped[i].recs[k].reason

C18_Witness ==
    /\ rcpc = "done"
    /\ raw = Answer(TRUE, <<LS, WORD, RS, SP, WORD>>)
    /\ parsed_plan = <<>>
    /\ Len(payload) = 2
    /\ Len(payload[1].manual) = 4

(***************************************************************************)
(* data_quality_score: data_quality.py lines 16-35, 38-63, 66-177, 226-276 *)
(*                                                                         *)
(* Percentages are kept in hundredths of a percent (round(x, 2) of the    *)
(* source), averages as exact fractions.                                   *)
(***************************************************************************)
MaxQRows == 3

NA == "nan"

\* The cells of the frames: missing, two well-formed e-mail addresses and a
\* text that is none.
QualityValues == {NA, "a@b.co", "c@d.io", "ab"}

\* str_data.str.match(EMAIL_RE) for the cell texts above.
MatchesEmail(v) == v \in {"a@b.co", "c@d.io"}

\* The header keywords of cons that select a format check ("email", "mail",
\* "@"); a column under any other header here is general text.
IsFormatChecked(col) == col = "email"

\* round(num / den * 100, 2) in hundredths, for 0 <= num and 0 < den. Below
\* 32 rows no quotient lies halfway between two hundredths.
Percentage(num, den) == (2 * num * 10000 + den) \div (2 * den)

\* The number of indices of a sequence whose element satisfies a test.
CountIf(seq, Test(_)) == Cardinality({i \in 1..Len(seq) : Test(seq[i])})

NotMissing(v) == v # NA

\* len(df) of a frame given column by column
FrameLen(frame) == IF frame = <<>> THEN 0 ELSE Len(frame[1].cells)

\* comp: the percentage of non-null values of each column
comp(frame) ==
    IF FrameLen(frame) = 0 THEN <<>>
    ELSE [c \in 1..Len(frame) |->
            Percentage(CountIf(frame[c].cells, NotMissing), FrameLen(frame))]

\* df.duplicated().sum(): the rows equal to an earlier row, missing cells
\* comparing equal
DuplicateRows(frame) ==
    Cardinality({i \in 1..FrameLen(frame) :
        \E j \in 1..(i - 1) :
            \A c \in 1..Len(frame) : frame[c].cells[i] = frame[c].cells[j]})

\* dup: duplicate_percentage
dup(frame) ==
    IF FrameLen(frame) = 0 THEN 0
    ELSE Percentage(DuplicateRows(frame), FrameLen(frame))

\* cons: invalid_percentage of one column
InvalidPercentage(column) ==
    LET col_data == SelectSeq(column.cells, NotMissing)
        Invalid(v) == ~MatchesEmail(v)
    IN  IF Len(col_data) = 0 THEN 0
        ELSE IF IsFormatChecked(column.name)
             THEN Percentage(CountIf(col_data, Invalid), Len(col_data))
             ELSE 0

cons(frame) ==
    IF FrameLen(frame) = 0 THEN <<>>
    ELSE [c \in 1..Len(frame) |-> InvalidPercentage(frame[c])]

RECURSIVE SumSeq(_)
SumSeq(seq) == IF seq = <<>> THEN 0 ELSE seq[1] + SumSeq(Tail(seq))

\* weights = {"completeness": 0.4, "duplicates": 0.3, "consistency": 0.3}, in tenths
WEIGHT_COMPLETENESS == 4
WEIGHT_DUPLICATES == 3
WEIGHT_CONSISTENCY == 3

\* Mutant: the three component scores are added without their weights.
WeightedSum_Unweighted(sumC, d, sumS, n) == 10 * (sumC + d * n + sumS)

\* overall_score times 10 * n, for component sums over n columns and the
\* duplicates score d, all in hundredths
WeightedSum(sumC, d, sumS, n) ==
    WEIGHT_COMPLETENESS * sumC + WEIGHT_DUPLICATES * d * n + WEIGHT_CONSISTENCY * sumS

\* The category of a score given as the fraction num / den of hundredths
Category(num, den) ==
    IF num >= 9000 * den THEN "Excellent"
    ELSE IF num >= 7500 * den THEN "Good"
    ELSE IF num >= 6000 * den THEN "Fair"
    ELSE IF num >= 4000 * den THEN "Poor"
    ELSE "Critical"

data_quality_score(frame) ==
    IF FrameLen(frame) = 0
    THEN [overall_score |-> 0, category |-> "Poor"]
    ELSE
        LET n == Len(frame)
            completeness_data == comp(frame)
            duplicates_score == Max(0, 10000 - dup(frame))
            invalid == cons(frame)
            consistency_scores == [c \in 1..n |-> Max(0, 10000 - invalid[c])]
            num == WeightedSum(SumSeq(completeness_data), duplicates_score,
                               SumSeq(consistency_scores), n)
            den == 10 * n
        IN  [overall_score |-> (2 * num + den) \div (2 * den),
             category |-> Category(num, den)]

\* The frames: one or two columns, an e-mail column and a text column, of
\* up to MaxQRows rows.
QualityHeaders == {<<"email">>, <<"note">>, <<"email", "note">>, <<"note", "email">>}

QualityFrames ==
    UNION {UNION {
        {[c \in 1..Len(hs) |-> [name |-> hs[c], cells |-> cs[c]]] :
            cs \in [1..Len(hs) -> [1..n -> QualityValues]]} :
        n \in 0..MaxQRows} : hs \in QualityHeaders}

DataQualityScore ==
    /\ qpc = "idle"
    /\ \E frame \in QualityFrames :
          /\ qdf' = frame
          /\ quality_score' = data_quality_score(frame)
    /\ qpc' = "done"
    /\ UNCHANGED <<resolveVars, dateVars, applyVars, sampleVars, headerVars, recVars, entityVars, runVars, piiVars>>

NextQuality == DataQualityScore

InitQuality ==
    IdleResolve /\ IdleDate /\ IdleApply /\ IdleSample /\ IdleHeader /\ IdleRecommend /\ IdleQuality /\ IdleEntities /\ IdleRuns /\ IdlePii

SpecQuality == InitQuality /\ [][NextQuality]_vars

\* C21: the overall quality score lies in [0, 100] for every data frame,
\* and for a data frame with no rows it is 0 with the category "Poor".
C21_ScoreBounded ==
    qpc = "done" =>
        /\ quality_score.overall_score >= 0
        /\ quality_score.overall_score <= 10000
        /\ FrameLen(qdf) = 0 =>
              /\ quality_score.overall_score = 0
              /\ quality_score.category = "Poor"

\* Two equal rows, a missing cell and an ill-formed address: every component
\* is below 100 and the score is strictly inside the range.
C21_Witness ==
    /\ qpc = "done"
    /\ FrameLen(qdf) = 3
    /\ DuplicateRows(qdf) > 0
    /\ \E c \in 1..Len(qdf) : \E i \in 1..3 : qdf[c].cells[i] = NA
    /\ \E c \in 1..Len(qdf) : InvalidPercentage(qdf[c]) > 0
    /\ quality_score.overall_score > 0
    /\ quality_score.overall_score < 10000

(***************************************************************************)
(* get_analyzer: logic.py lines 63-369                                     *)
(*                                                                         *)
(* A regular expression is a tree; Ends gives every offset at which a      *)
(* match that starts at a given offset can end, which is what decides      *)
(* whether re.finditer yields a match at all.  PatternRecognizer compiles  *)
(* with re.DOTALL | re.MULTILINE | re.IGNORECASE and ImpliedGender with    *)
(* re.IGNORECASE, so letters are compared after case folding.              *)
(***************************************************************************)
UpperCase ==
    <<"A", "B", "C", "D", "E", "F", "G", "H", "I", "J", "K", "L", "M",
      "N", "O", "P", "Q", "R", "S", "T", "U", "V", "W", "X", "Y", "Z">>

LowerCase ==
    <<"a", "b", "c", "d", "e", "f", "g", "h", "i", "j", "k", "l", "m",
      "n", "o", "p", "q", "r", "s", "t", "u", "v", "w", "x", "y", "z">>

CaseFold(c) ==
    IF \E i \in 1..Len(UpperCase) : UpperCase[i] = c
    THEN LowerCase[CHOOSE i \in 1..Len(UpperCase) : UpperCase[i] = c]
    ELSE c

\* str.lower()
Lowered(text) == [i \in 1..Len(text) |-> CaseFold(text[i])]

LetterChars == {LowerCase[i] : i \in 1..Len(LowerCase)}
DigitChars == DOMAIN DigitVal
\* \w after case folding
WordChars == LetterChars \cup DigitChars \cup {"_"}
\* \s
SpaceChars == {" "}

\* The nodes of an expression.  chars holds folded characters; max = -1
\* stands for no upper limit.
Chars(S) == [op |-> "set", neg |-> FALSE, chars |-> S, items |-> <<>>, min |-> 1, max |-> 1]
NotChars(S) == [op |-> "set", neg |-> TRUE, chars |-> S, items |-> <<>>, min |-> 1, max |-> 1]
WordBoundary == [op |-> "b", neg |-> FALSE, chars |-> {}, items |-> <<>>, min |-> 0, max |-> 0]
Cat(items) == [op |-> "cat", neg |-> FALSE, chars |-> {}, items |-> items, min |-> 1, max |-> 1]
Alt(items) == [op |-> "alt", neg |-> FALSE, chars |-> {}, items |-> items, min |-> 1, max |-> 1]
Rep(item, min, max) == [op |-> "rep", neg |-> FALSE, chars |-> {}, items |-> <<item>>, min |-> min, max |-> max]
LookAhead(item) == [op |-> "look", neg |-> FALSE, chars |-> {}, items |-> <<item>>, min |-> 0, max |-> 0]
Opt(item) == Rep(item, 0, 1)
Lit(s) == Cat([i \in 1..Len(s) |-> Chars({CaseFold(s[i])})])

IsWordAt(text, p) == p >= 1 /\ p <= Len(text) /\ CaseFold(text[p]) \in WordChars

\* The offsets j such that the expression matches text[i:j].
RECURSIVE Ends(_, _, _)
RECURSIVE EndsOfCat(_, _, _)
RECURSIVE EndsOfRep(_, _, _, _)
Ends(re, text, i) ==
    CASE re.op = "set" ->
            IF i < Len(text) /\ ((CaseFold(text[i + 1]) \in re.chars) # re.neg)
            THEN {i + 1} ELSE {}
      [] re.op = "b" -> IF IsWordAt(text, i) # IsWordAt(text, i + 1) THEN {i} ELSE {}
      [] re.op = "cat" -> EndsOfCat(re.items, text, {i})
      [] re.op = "alt" -> UNION {Ends(re.items[k], text, i) : k \in 1..Len(re.items)}
      [] re.op = "rep" -> EndsOfRep(re, text, {i}, 0)
      [] OTHER -> IF Ends(re.items[1], text, i) # {} THEN {i} ELSE {}

EndsOfCat(items, text, from) ==
    IF Len(items) = 0 THEN from
    ELSE EndsOfCat(Tail(items), text, UNION {Ends(Head(items), text, j) : j \in from})

EndsOfRep(re, text, from, k) ==
    LET here == IF k >= re.min THEN from ELSE {}
    IN  IF from = {} \/ k = re.max THEN here
        ELSE here \cup EndsOfRep(re, text, UNION {Ends(re.items[1], text, j) : j \in from}, k + 1)

\* re.finditer(regex, text) yields a match that is not empty
Found(re, text) == \E i \in 0..Len(text) : \E j \in Ends(re, text, i) : j > i

\* sub in text, for a text that is not empty
Contains(text, sub) ==
    \E i \in 0..(Len(text) - Len(sub)) : SubSeq(text, i + 1, i + Len(sub)) = sub

Digit == Chars(DigitChars)
Letter == Chars(LetterChars)
NonSpace == NotChars(SpaceChars)

\* r"\b[A-Z]{1,2}[0-9]{5,7}\b"
CIN_PATTERN == Cat(<<WordBoundary, Rep(Letter, 1, 2), Rep(Digit, 5, 7), WordBoundary>>)

\* r"\b[A-Z]{1}[0-9]{7}\b"
PASSPORT_PATTERN == Cat(<<WordBoundary, Rep(Letter, 1, 1), Rep(Digit, 7, 7), WordBoundary>>)

\* r"\b[0-9]{9,10}\b"
CARTE_DE_SEJOUR_PATTERN == Cat(<<WordBoundary, Rep(Digit, 9, 10), WordBoundary>>)

\* r"\b(?=\S*\d)\S{6,20}\b"
DRIVER_LICENSE_PATTERN ==
    Cat(<<WordBoundary, LookAhead(Cat(<<Rep(NonSpace, 0, -1), Digit>>)),
          Rep(NonSpace, 6, 20), WordBoundary>>)

\* r"\b[0-9]{5}\b"
POSTAL_CODE_PATTERN == Cat(<<WordBoundary, Rep(Digit, 5, 5), WordBoundary>>)

\* r"\b(?:A|B|AB|O)(?:[+-]|(?:\s?(?:positive|negative|pos|neg)))|Rh(?:\s?(?:null|positive|negative|pos|neg))\b"
BLOOD_TYPE_PATTERN ==
    Alt(<<Cat(<<WordBoundary,
                Alt(<<Lit(<<"A">>), Lit(<<"B">>), Lit(<<"A", "B">>), Lit(<<"O">>)>>),
                Alt(<<Chars({"+", "-"}),
                      Cat(<<Opt(Chars(SpaceChars)),
                            Alt(<<Lit(<<"p", "o", "s", "i", "t", "i", "v", "e">>), Lit(<<"n", "e", "g", "a", "t", "i", "v", "e">>), Lit(<<"p", "o", "s">>), Lit(<<"n", "e", "g">>)>>)>>)>>)>>),
          Cat(<<Lit(<<"R", "h">>),
                Opt(Chars(SpaceChars)),
                Alt(<<Lit(<<"n", "u", "l", "l">>), Lit(<<"p", "o", "s", "i", "t", "i", "v", "e">>), Lit(<<"n", "e", "g", "a", "t", "i", "v", "e">>), Lit(<<"p", "o", "s">>), Lit(<<"n", "e", "g">>)>>),
                WordBoundary>>)>>)

\* r"\bMA(?:\s*\d\s*){20,28}\b"
IBAN_PATTERN ==
    Cat(<<WordBoundary, Lit(<<"M", "A">>),
          Rep(Cat(<<Rep(Chars(SpaceChars), 0, -1), Digit, Rep(Chars(SpaceChars), 0, -1)>>), 20, 28),
          WordBoundary>>)

\* r"\b(?=\S*[0-9])[\w\-]{6,20}\b"
INSUREANCE_PATERN ==
    Cat(<<WordBoundary, LookAhead(Cat(<<Rep(NonSpace, 0, -1), Digit>>)),
          Rep(Chars(WordChars \cup {"-"}), 6, 20), WordBoundary>>)

\* r"\b[0-9]{15}\b"
TIN_PATTERN == Cat(<<WordBoundary, Rep(Digit, 15, 15), WordBoundary>>)

\* r"EMP-[0-9]{4,6}"
INTERNAL_ID_PATTERN == Cat(<<Lit(<<"E", "M", "P", "-">>), Rep(Digit, 4, 6)>>)

\* r"\b(?:male|female)\b"
GENDER_PATTERN == Cat(<<WordBoundary, Alt(<<Lit(<<"m", "a", "l", "e">>), Lit(<<"f", "e", "m", "a", "l", "e">>)>>), WordBoundary>>)

\* ImpliedGender.pattern: r"\b(" + "|".join(self.gender_words) + r")\b"
gender_words ==
    <<Lit(<<"h", "e">>),
      Lit(<<"s", "h", "e">>),
      Lit(<<"h", "i", "s">>),
      Lit(<<"h", "e", "r">>),
      Lit(<<"h", "i", "m">>),
      Lit(<<"h", "e", "r", "s">>),
      Lit(<<"m", "r", ".">>),
      Lit(<<"m", "r", "s", ".">>),
      Lit(<<"m", "i", "s", "s">>),
      Lit(<<"m", "s", ".">>),
      Lit(<<"s", "i", "r">>),
      Lit(<<"m", "a", "d", "a", "m">>)>>

ImpliedGenderPattern == Cat(<<WordBoundary, Alt(gender_words), WordBoundary>>)

\* r"\b(?:\$|€|MAD|USD|DHS)?\s?\d{3,6}(?:[.,]?\d{3})*(?:\s?(MAD|USD|DHS|EUR|K|k|M|m))?\b";
\* the euro sign is written "euro" and stands for one character.
INCOME_PATTERN ==
    Cat(<<WordBoundary,
          Opt(Alt(<<Chars({"$"}), Chars({"euro"}), Lit(<<"M", "A", "D">>), Lit(<<"U", "S", "D">>), Lit(<<"D", "H", "S">>)>>)),
          Opt(Chars(SpaceChars)),
          Rep(Digit, 3, 6),
          Rep(Cat(<<Opt(Chars({".", ","})), Rep(Digit, 3, 3)>>), 0, -1),
          Opt(Cat(<<Opt(Chars(SpaceChars)),
                    Alt(<<Lit(<<"M", "A", "D">>), Lit(<<"U", "S", "D">>), Lit(<<"D", "H", "S">>), Lit(<<"E", "U", "R">>), Lit(<<"K">>), Lit(<<"k">>), Lit(<<"M">>), Lit(<<"m">>)>>)>>)),
          WordBoundary>>)

\* MedRecRecognizer.DEFAULT_KEYWORDS
DEFAULT_KEYWORDS ==
    {<<"d", "i", "s", "e", "a", "s", "e">>,
     <<"s", "y", "n", "d", "r", "o", "m", "e">>,
     <<"c", "a", "n", "c", "e", "r">>,
     <<"t", "u", "m", "o", "r">>,
     <<"t", "u", "m", "o", "u", "r">>,
     <<"d", "i", "a", "b", "e", "t", "e", "s">>,
     <<"a", "s", "t", "h", "m", "a">>,
     <<"h", "y", "p", "e", "r", "t", "e", "n", "s", "i", "o", "n">>,
     <<"k", "i", "d", "n", "e", "y">>,
     <<"r", "e", "n", "a", "l">>,
     <<"h", "e", "p", "a", "t", "i", "t", "i", "s">>,
     <<"h", "i", "v">>,
     <<"a", "i", "d", "s">>,
     <<"c", "o", "v", "i", "d">>,
     <<"i", "n", "f", "e", "c", "t", "i", "o", "n">>,
     <<"s", "t", "r", "o", "k", "e">>,
     <<"d", "e", "p", "r", "e", "s", "s", "i", "o", "n">>,
     <<"a", "n", "x", "i", "e", "t", "y">>}

\* MedRecRecognizer.analyze: a result for every entity of the language model
\* that is kept, then one for every occurrence of a keyword that has none.
MedRecDetects(text, ents) ==
    ents \/ \E kw \in DEFAULT_KEYWORDS : Contains(Lowered(text), kw)

\* JOBS, the third field of the lines of assets/jobs.csv in lower case; the
\* file is taken to hold these titles.
JOBS == {<<"s", "o", "f", "t", "w", "a", "r", "e", " ", "e", "n", "g", "i", "n", "e", "e", "r">>, <<"n", "u", "r", "s", "e">>}

\* JobTitleRecognizer.analyze
JobTitleDetects(text) == \E job \in JOBS : Contains(Lowered(text), Lowered(job))

\* The recognizers get_analyzer registers that carry patterns, by entity.
PatternRecognizers ==
    <<[entity |-> "MIBAN_CODE", pattern |-> IBAN_PATTERN],
      [entity |-> "DRIVER_LICENSE", pattern |-> DRIVER_LICENSE_PATTERN],
      [entity |-> "INSURANCE_NUMBER", pattern |-> INSUREANCE_PATERN],
      [entity |-> "INCOME_AMOUNT", pattern |-> INCOME_PATTERN],
      [entity |-> "GENDER_DECLARED", pattern |-> GENDER_PATTERN],
      [entity |-> "IMPLIED_GENDER", pattern |-> ImpliedGenderPattern],
      [entity |-> "CIN", pattern |-> CIN_PATTERN],
      [entity |-> "PASSPORT", pattern |-> PASSPORT_PATTERN],
      [entity |-> "CARTE_DE_SEJOUR", pattern |-> CARTE_DE_SEJOUR_PATTERN],
      [entity |-> "POSTAL_CODE", pattern |-> POSTAL_CODE_PATTERN],
      [entity |-> "BLOOD_TYPE", pattern |-> BLOOD_TYPE_PATTERN],
      [entity |-> "TIN", pattern |-> TIN_PATTERN],
      [entity |-> "INTERNAL_ID", pattern |-> INTERNAL_ID_PATTERN]>>

\* The entity types of the results of get_analyzer().analyze(text,
\* language="en") that come from the recognizers added in get_analyzer: the
\* engine keeps, for each entity type, at least one of the results its
\* recognizers return.
EntityTypes(text, ents) ==
    {PatternRecognizers[k].entity : k \in {h \in 1..Len(PatternRecognizers) :
                                            Found(PatternRecognizers[h].pattern, text)}}
    \cup (IF MedRecDetects(text, ents) THEN {"MEDICAL_CONDITION"} ELSE {})
    \cup (IF JobTitleDetects(text) THEN {"JOB_TITLE"} ELSE {})

\* Well-formed instances of the entity types: those of tests/test_entities.py
\* and a title of the gender words.
Instances ==
    {[entity |-> "CIN", text |-> <<"A", "B", "1", "2", "3", "4", "5", "6">>],
     [entity |-> "PASSPORT", text |-> <<"X", "1", "2", "3", "4", "5", "6", "7">>],
     [entity |-> "CARTE_DE_SEJOUR", text |-> <<"1", "2", "3", "4", "5", "6", "7", "8", "9", "0">>],
     [entity |-> "DRIVER_LICENSE", text |-> <<"0", "1", "/", "9", "8", "7", "6", "5", "4", "3">>],
     [entity |-> "INSURANCE_NUMBER", text |-> <<"C", "N", "O", "P", "S", "-", "8", "8", "2", "2", "0">>],
     [entity |-> "INCOME_AMOUNT", text |-> <<"1", "5", ",", "0", "0", "0", " ", "M", "A", "D">>],
     [entity |-> "POSTAL_CODE", text |-> <<"2", "0", "2", "5", "0">>],
     [entity |-> "BLOOD_TYPE", text |-> <<"A", "B", "+">>],
     [entity |-> "TIN", text |-> <<"1", "2", "3", "4", "5", "6", "7", "8", "9", "0", "1", "2", "3", "4", "5">>],
     [entity |-> "INTERNAL_ID", text |-> <<"E", "M", "P", "-", "0", "0", "2", "3", "4", "5">>],
     [entity |-> "JOB_TITLE", text |-> <<"s", "o", "f", "t", "w", "a", "r", "e", " ", "e", "n", "g", "i", "n", "e", "e", "r">>],
     [entity |-> "MEDICAL_CONDITION", text |-> <<"c", "h", "r", "o", "n", "i", "c", " ", "k", "i", "d", "n", "e", "y", " ", "d", "i", "s", "e", "a", "s", "e">>],
     [entity |-> "MEDICAL_CONDITION", text |-> <<"a", "s", "t", "h", "m", "a">>],
     [entity |-> "GENDER_DECLARED", text |-> <<"F", "e", "m", "a", "l", "e">>],
     [entity |-> "IMPLIED_GENDER", text |-> <<"S", "h", "e">>],
     [entity |-> "IMPLIED_GENDER", text |-> <<"M", "r", ".">>],
     [entity |-> "MIBAN_CODE", text |-> <<"M", "A", "6", "4", "0", "1", "1", "5", "1", "9", "0", "0", "0", "0", "0", "1", "2", "0", "5", "0", "0", "0", "5", "3", "4", "9", "2", "1">>]}

\* What stands before and after the instance in the text.
Prefixes == {<<>>, <<"I", "t", " ", "i", "s", " ">>, <<"(">>}
Suffixes == {<<>>, <<".">>, <<" ", "h", "e", "r", "e">>, <<")">>}

AnalyzeText ==
    /\ epc = "idle"
    /\ \E inst \in Instances, pre \in Prefixes, suf \in Suffixes, ents \in BOOLEAN :
          /\ etext' = pre \o inst.text \o suf
          /\ instance' = inst
          /\ detected' = EntityTypes(pre \o inst.text \o suf, ents)
    /\ epc' = "done"
    /\ UNCHANGED <<resolveVars, dateVars, applyVars, sampleVars, headerVars, recVars, qualityVars, runVars, piiVars>>

NextEntities == AnalyzeText

InitEntities ==
    IdleResolve /\ IdleDate /\ IdleApply /\ IdleSample /\ IdleHeader /\ IdleRecommend /\ IdleQuality /\ IdleEntities /\ IdleRuns /\ IdlePii

SpecEntities == InitEntities /\ [][NextEntities]_vars

\* C22: analysing a text that contains a well-formed instance of an entity
\* type returns at least one result of that entity type.
C22_InstanceDetected ==
    epc = "done" => instance.entity \in detected


\* The instances of tests/test_entities.py are detected wherever they stand.
TestInstancesDetected ==
    (epc = "done" /\ instance.text # <<"M", "r", ".">>) => instance.entity \in detected

(***************************************************************************)
(* process_csv and the report of the module: csv_pii.py lines 99-137,      *)
(* 160-192                                                                 *)
(*                                                                         *)
(* report is created once, when the module is loaded (line 137); every run *)
(* adds to it (lines 130-132) and process_csv returns it (line 192).  Runs *)
(* of one process interleave between cells.                                *)
(***************************************************************************)
MaxRunCells == 2

\* What analyzer.analyze returns for the cells of the masked columns.
CellResults ==
    { <<>>,
      <<[start |-> 0, end |-> 2, entity_type |-> "EMAIL_ADDRESS", score |-> 9]>>,
      <<[start |-> 0, end |-> 2, entity_type |-> "UNLISTED", score |-> 8],
        [start |-> 2, end |-> 4, entity_type |-> "EMAIL_ADDRESS", score |-> 7]>> }

\* A call of analyzer.analyze returns results or raises.
CellOutcomes ==
    {[raises |-> FALSE, results |-> rs] : rs \in CellResults}
        \cup {[raises |-> TRUE, results |-> <<>>]}

RunColumns == UNION {[1..n -> CellOutcomes] : n \in 1..MaxRunCells}

\* process_csv reaches full_analyze_mask for a column without a confirmed guess.
StartRun(r) ==
    /\ runs[r].pc = "idle"
    /\ \E name \in {"a", "b"}, column \in RunColumns :
          runs' = [runs EXCEPT ![r] = [IdleRun EXCEPT !.pc = "masking", !.name = name,
                                                       !.column = column]]
    /\ UNCHANGED <<resolveVars, dateVars, applyVars, sampleVars, headerVars, recVars,
                   qualityVars, entityVars, piiVars>>

\* One iteration of "for cell in column": the selection of the cell is
\* counted in the report of the module.  used counts what this run selected.
MaskNextCell(r) ==
    /\ runs[r].pc = "masking"
    /\ runs[r].idx < Len(runs[r].column)
    /\ LET cell == runs[r].column[runs[r].idx + 1]
           sel == Resolve(cell.results)
       IN  IF cell.raises
           THEN \* line 110 stands in no try block: the exception leaves
                \* full_analyze_mask and process_csv
                /\ runs' = [runs EXCEPT ![r].pc = "raised"]
                /\ UNCHANGED report
           ELSE /\ report' = ReportAdd(report, runs[r].name, sel)
                /\ runs' = [runs EXCEPT ![r].idx = @ + 1,
                                        ![r].used = ReportAdd(@, runs[r].name, sel)]
    /\ UNCHANGED <<rpc, cellText, results, selected, walk, maskedText,
                   dateVars, applyVars, sampleVars, headerVars, recVars,
                   qualityVars, entityVars, piiVars>>

\* return df, report
ReturnReport(r) ==
    /\ runs[r].pc = "masking"
    /\ runs[r].idx = Len(runs[r].column)
    /\ runs' = [runs EXCEPT ![r].pc = "done", ![r].returned = report]
    /\ UNCHANGED <<resolveVars, dateVars, applyVars, sampleVars, headerVars, recVars,
                   qualityVars, entityVars, piiVars>>

NextRuns == \E r \in RunIds : StartRun(r) \/ MaskNextCell(r) \/ ReturnReport(r)

InitRuns ==
    IdleResolve /\ IdleDate /\ IdleApply /\ IdleSample /\ IdleHeader /\ IdleRecommend /\ IdleQuality /\ IdleEntities /\ IdleRuns /\ IdlePii

SpecRuns == InitRuns /\ [][NextRuns]_vars

\* C23: the report a masking run returns counts only the spans that run
\* used to mask; runs that follow or overlap each other never see or add to
\* each other's counts.
C23_ReportScopedToRun ==
    \A r \in RunIds : runs[r].pc = "done" => runs[r].returned = runs[r].used

\* A single run, alone in the process, returns its own counts.
FirstRunAlone ==
    \A r \in RunIds :
        (runs[r].pc = "done" /\ \A o \in RunIds \ {r} : runs[o].pc = "idle")
            => runs[r].returned = runs[r].used

\* C24: a recognizer call that fails for one cell does not abort the
\* processing of the column; the cell counts as one without entities and
\* the remaining cells are processed.
C24_FailedCallIsLocal ==
    \A r \in RunIds : runs[r].pc # "raised"

\* A column whose recognizer calls all return is masked to its end.
ReturningCallsFinish ==
    \A r \in RunIds :
        (runs[r].pc = "masking" /\ runs[r].idx = Len(runs[r].column))
            => \A i \in 1..Len(runs[r].column) : ~runs[r].column[i].raises

(***************************************************************************)
(* The full-column fallback of process_pii, cell by cell:                  *)
(* recommendation.py lines 168-201, 209, 219, 233                          *)
(***************************************************************************)
MaxPiiRows == 3

\* The cells of the column: missing, an e-mail address, a year, a text
\* without entities.
PiiCells ==
    {NaN, Str(<<"a", "@", "b", ".", "c", "o">>), Str(<<"2", "0", "0", "4">>), Str(<<"x">>)}

\* analyzer.analyze(text), filtered by score >= MIN_SCORE, as entity types.
\* What the recognizer makes of the text "nan" is open.
Recognize(text, nanHits) ==
    CASE text = <<"a", "@", "b", ".", "c", "o">> -> <<"EMAIL_ADDRESS">>
      [] text = <<"2", "0", "0", "4">> -> <<"DATE_TIME">>
      [] text = <<"n", "a", "n">> -> nanHits
      [] OTHER -> <<>>

\* df = df.astype(str)   (line 209): every cell becomes str(cell)
AsTypeStr(series) == [i \in 1..Len(series) |-> Str(PyStr(series[i]))]

\* entities[r.entity_type] = entities.get(r.entity_type, 0) + 1
RECURSIVE CountEntities(_, _)
CountEntities(entities, types) ==
    IF types = <<>> THEN entities
    ELSE LET t == Head(types)
             known == \E i \in 1..Len(entities) : entities[i].entity = t
             next == IF known
                     THEN [i \in 1..Len(entities) |->
                             IF entities[i].entity = t
                             THEN [entity |-> t, count |-> entities[i].count + 1]
                             ELSE entities[i]]
                     ELSE Append(entities, [entity |-> t, count |-> 1])
         IN  CountEntities(next, Tail(types))

\* The loop of full_analyze (lines 172-183) from row i on
RECURSIVE ScanCells(_, _, _, _)
ScanCells(series, nanHits, i, st) ==
    IF i > Len(series) THEN st
    ELSE IF IsNa(series[i]) THEN ScanCells(series, nanHits, i + 1, st)
    ELSE LET text == PyStr(series[i])
             result == Recognize(text, nanHits)
             calls == Append(st.calls, [row |-> i, text |-> text])
         IN  IF result = <<>>
             THEN ScanCells(series, nanHits, i + 1, [st EXCEPT !.calls = calls])
             ELSE ScanCells(series, nanHits, i + 1,
                            [calls |-> calls, count |-> st.count + 1,
                             entities |-> CountEntities(st.entities, result)])

\* full_analyze on the cells of a series: the calls it made and its answer
FullAnalyzeCells(series, nanHits) ==
    LET st == ScanCells(series, nanHits, 1, [calls |-> <<>>, count |-> 0, entities |-> <<>>])
        rec == full_analyze(st.entities)
    IN  [calls |-> st.calls,
         rec |-> [action |-> rec.action, entity |-> rec.entity, count |-> st.count,
                  total |-> Max(Len(series), 1)]]

\* process_pii for a header without a confirmed guess: lines 209, 219 and 233
ProcessPiiFallback ==
    /\ fpc = "idle"
    /\ \E series \in UNION {[1..n -> PiiCells] : n \in 0..MaxPiiRows},
          nanHits \in {<<>>, <<"PERSON">>} :
          LET run == FullAnalyzeCells(AsTypeStr(series), nanHits)
          IN  /\ fseries' = series
              /\ nan_hits' = nanHits
              /\ analyzed' = run.calls
              /\ frec' = run.rec
    /\ fpc' = "done"
    /\ UNCHANGED <<resolveVars, dateVars, applyVars, sampleVars, headerVars, recVars,
                   qualityVars, entityVars, runVars>>

NextPii == ProcessPiiFallback

InitPii ==
    IdleResolve /\ IdleDate /\ IdleApply /\ IdleSample /\ IdleHeader /\ IdleRecommend /\ IdleQuality /\ IdleEntities /\ IdleRuns /\ IdlePii

SpecPii == InitPii /\ [][NextPii]_vars

\* The rows of the column in which the recognizer finds an entity.
RowsWithHit(series, nanHits) ==
    {i \in 1..Len(series) : ~IsNa(series[i]) /\ Recognize(PyStr(series[i]), nanHits) # <<>>}

\* C25: the full-column fallback of the PII rule runs the recognizer over
\* the non-missing cells only; a missing cell is never passed to it and never
\* counts as a cell with detected PII, and a column in which no cell
\* triggers a hit yields keep.
C25_FallbackSkipsMissing ==
    fpc = "done" =>
        /\ \A k \in 1..Len(analyzed) : ~IsNa(fseries[analyzed[k].row])
        /\ frec.count = Cardinality(RowsWithHit(fseries, nan_hits))
        /\ RowsWithHit(fseries, nan_hits) = {} => frec.action = "keep"

\* Every cell that holds a value is passed to the recognizer, in row order,
\* and a column without any hit yields keep.
ValuesAreAnalyzed ==
    fpc = "done" =>
        /\ \A i \in 1..Len(fseries) :
              ~IsNa(fseries[i]) => \E k \in 1..Len(analyzed) : analyzed[k].row = i
        /\ frec.count = 0 => frec.action = "keep"

\* ---------------------------------------------------------------------------
\* recommend_actions: what becomes of the plan entries   (SpecRecommend)
\* ---------------------------------------------------------------------------

\* The names of the actions of a plan entry, in the entry's order.
ActionNames(entry) ==
    IF entry.kind = "object"
    THEN [m \in 1..Len(entry.items) |-> entry.items[m].key]
    ELSE <<>>

\* The "status" of the m-th action of a plan entry, null when it has none.
StatusAt(entry, m) ==
    LET act == entry.items[m].val
    IN  IF act.kind = "object" /\ \E k \in 1..Len(act.items) : act.items[k].key = "status"
        THEN act.items[CHOOSE k \in 1..Len(act.items) : act.items[k].key = "status"].val
        ELSE JsonValue("null", "", <<>>)

\* No NaN and no infinity anywhere in the value.
RECURSIVE AllFinite(_)
AllFinite(v) ==
    CASE v.kind = "number" -> v.text \notin {"NaN", "Infinity", "-Infinity"}
      [] v.kind = "object" -> \A m \in 1..Len(v.items) : AllFinite(v.items[m].val)
      [] v.kind = "array" -> \A m \in 1..Len(v.items) : AllFinite(v.items[m])
      [] OTHER -> TRUE

\* C27 as written: the "llm" entry of every column the plan names is the
\* parsed entry of that column, whatever it holds. Violated by a plan whose
\* entry holds a NaN, which json_safe replaces by None.
C27_PlanPassedUnmodified ==
    rcpc = "done" =>
        \A i \in 1..Len(payload) : \A m \in 1..Len(parsed_plan) :
            parsed_plan[m].key = payload[i].col => payload[i].llm = parsed_plan[m].val

\* C27 amended: the "llm" entry of every column the plan names has the
\* actions of the parsed entry, in its order and with their statuses, also
\* when several are accepted or one was never proposed; it is the parsed
\* entry itself unless that holds a NaN or an infinite number.
C27_PlanPassedThroughJsonSafe ==
    rcpc = "done" =>
        \A i \in 1..Len(payload) : \A m \in 1..Len(parsed_plan) :
            parsed_plan[m].key = payload[i].col =>
                /\ ActionNames(payload[i].llm) = ActionNames(parsed_plan[m].val)
                /\ \A k \in 1..Len(ActionNames(parsed_plan[m].val)) :
                       StatusAt(payload[i].llm, k) = StatusAt(parsed_plan[m].val, k)
                /\ AllFinite(parsed_plan[m].val) => payload[i].llm = parsed_plan[m].val

\* A payload built from the plan that accepts both "mask" and the unproposed
\* "encrypt" for column "a".
C27_Witness ==
    /\ rcpc = "done"
    /\ \E i \in 1..Len(payload) :
           /\ payload[i].col = "a"
           /\ ActionNames(payload[i].llm) = <<"mask", "encrypt", "drop">>
           /\ StatusAt(payload[i].llm, 1).text = "accepted"
           /\ StatusAt(payload[i].llm, 2).text = "accepted"
           /\ \A r \in 1..Len(payload[i].manual) : payload[i].manual[r].action # "encrypt"

\* ---------------------------------------------------------------------------
\* full_analyze_mask: coverage and order of the recognizer's spans (SpecResolve)
\* ---------------------------------------------------------------------------

\* Two spans share at least one character.
SpansOverlap(a, b) == a.start < b.end /\ b.start < a.end

\* C28: every span the recognizer returned with a score of at least MIN_SCORE
\* is selected or overlaps a selected span, so none of it stays fully readable.
C28_NoEntityLeftUnmasked ==
    rpc = "masked" =>
        \A i \in 1..Len(results) :
            results[i].score >= MIN_SCORE =>
                \E j \in 1..Len(selected) : SpansOverlap(results[i], selected[j])

\* With at most two spans in the cell nothing is left uncovered: the loss
\* needs a span that gave way to a candidate which is then replaced itself.
CoveredWithoutChain ==
    (rpc = "masked" /\ Len(results) <= 2) =>
        \A i \in 1..Len(results) :
            \E j \in 1..Len(selected) : SpansOverlap(results[i], selected[j])

\* The orders in which the analyzer could have returned the spans of rs.
Orderings(rs) ==
    { [i \in 1..Len(rs) |-> rs[f[i]]] :
        f \in { g \in [1..Len(rs) -> 1..Len(rs)] :
                  \A a, b \in 1..Len(rs) : a # b => g[a] # g[b] } }

\* C29: whatever the order in which the analyzer returns the spans of the
\* cell, the selection and the masked text are the ones of this run.
C29_SelectionOrderIndependent ==
    rpc = "masked" =>
        \A p \in Orderings(results) :
            /\ Resolve(p) = selected
            /\ mask(cellText, Resolve(p)) = maskedText

\* Two spans alike in start, end and score, of different entity type.
Twins(a, b) ==
    a.start = b.start /\ a.end = b.end /\ a.score = b.score /\ a.entity_type # b.entity_type

\* Without twins among the spans the order does not matter.
OrderIndependentWithoutTwins ==
    (rpc = "masked" /\ \A i, j \in 1..Len(results) : ~Twins(results[i], results[j])) =>
        \A p \in Orderings(results) : Resolve(p) = selected

\* ---------------------------------------------------------------------------
\* apply_recommendations: what has no effect   (SpecApply)
\* ---------------------------------------------------------------------------

\* The plan accepts none of the five actions for column c.
NothingAccepted(c) ==
    \A i \in 1..Len(feedback) :
        feedback[i].col = c =>
            \A n \in SeqToSet(CanonOrder) : Get(feedback[i].actions, n).status # "accepted"

\* C30: only accepted actions on columns of the dataset have an effect. Every
\* block that ran is one of the five actions, accepted for a column of the
\* dataset; a column with no accepted action is in the output with the cells
\* it had, whatever else its entry or the plan holds; and when no column has
\* an accepted action the output has the columns, the column order and the
\* cell values of the input.
C30_OnlyAcceptedHasEffect ==
    apc # "idle" =>
        /\ \A j \in 1..Len(applied) :
               /\ applied[j].col \in SeqToSet(df0.columns)
               /\ applied[j].action \in SeqToSet(CanonOrder)
               /\ \E i \in 1..Len(feedback) :
                      /\ feedback[i].col = applied[j].col
                      /\ Get(feedback[i].actions, applied[j].action).status = "accepted"
        /\ \A c \in SeqToSet(df0.columns) :
               NothingAccepted(c) =>
                   /\ c \in SeqToSet(Out.columns)
                   /\ Out.data[c] = df0.data[c]
                   /\ c \notin Out.cat
        /\ (\A c \in SeqToSet(df0.columns) : NothingAccepted(c)) => Out = df0

\* A finished call whose plan holds an accepted mask for a column that is not
\* in the dataset, every action of column a rejected next to an accepted
\* "enrich", and pending and rejected actions for column b, on a frame whose
\* column a has a gap and a date: the output equals the input.
C30_Witness ==
    /\ apc = "done"
    /\ Len(feedback) = 3
    /\ feedback[1].col = "zz" /\ Get(feedback[1].actions, "mask").status = "accepted"
    /\ feedback[2].col = "a"
    /\ \A n \in SeqToSet(CanonOrder) : Get(feedback[2].actions, n).status = "rejected"
    /\ Get(feedback[2].actions, "enrich").status = "accepted"
    /\ feedback[3].col = "b" /\ Get(feedback[3].actions, "generalize").status = "pending"
    /\ df0.data["a"] = <<NaN, Str(<<"2", "0", "0", "4">>)>>
    /\ Out = df0
    /\ applied = <<>>

====
